---- MODULE Spec2Model ----
(***************************************************************************)
(* A model of pyrelic, the Python bindings for the relic pairing toolkit:  *)
(* the Relic context manager, the wrapper objects BN / G1 / G2 / GT over   *)
(* backend-owned buffers, the batched multiplication mul_sim_G1 /          *)
(* mul_sim_G2 and the pairing product pair_product.                        *)
(*                                                                         *)
(* The three groups are cyclic of the same order, so a group element is    *)
(* represented by its discrete logarithm in 0..Order-1: composition adds   *)
(* logarithms, scalar multiplication multiplies them, the pairing of a and *)
(* b is a*b.  Python objects are references into a heap of backend         *)
(* buffers; every backend call a function makes is appended to a log.      *)
(***************************************************************************)
EXTENDS Integers, Sequences, FiniteSets, TLC

VARIABLES
  pc,      \* "ready" before a call, "done" after it, "relic" for the context manager
  inp,     \* the operation that is called and its arguments
  heap0,   \* the backend buffers before the call
  heap,    \* the backend buffers
  out,     \* what the last call raised, returned and asked of the backend
  build,   \* which module is built, against which relic version
  core,    \* the process-wide backend core
  ctxs,    \* the Relic context objects
  counts,  \* successful core_init calls and core_clean calls so far
  last     \* the last event of the context manager

vars == <<pc, inp, heap0, heap, out, build, core, ctxs, counts, last>>

relicVars == <<build, core, ctxs, counts, last>>

(* ------------------------------ bounds -------------------------------- *)

\* Longest input sequence (values, scalars, pairs) that is enumerated.
MaxLen == 3

\* Order of the three groups in the model (the discrete logarithms).
Order == 3

\* The scalars (BN values) that are enumerated: a negative one, zero, one.
Scalars == {-1, 0, 1}

\* How deep one Relic context object may be entered, and how many times
\* core_init may succeed.
MaxDepth == 2

MaxInits == 2

\* Index reported when an exception names no index.
NoIndex == 0 - 1

\* Content of a buffer that was allocated and never written.
Undef == 0 - 1

(* ------------------------- Python values ------------------------------ *)

\* A wrapper object (BN, G1, G2, GT) is a reference to its backend buffer.
Ref(t, id) == [py |-> t, id |-> id]

PyInt(n) == [py |-> "int", val |-> n]

PyTuple(items) == [py |-> "tuple", items |-> items]

PyNone == [py |-> "None"]

NotImplemented == [py |-> "NotImplemented"]

isinstance(o, t) == o.py = t

\* Python sequences are indexed from 0.
At(s, idx) == s[idx + 1]

(* --------------------- the backend (relic.pxd) ------------------------ *)

\* The names of the backend functions of the two curve groups.
bk ==
  [G1 |-> [null |-> "g1_null", new |-> "g1_new", copy |-> "g1_copy",
           set_infty |-> "g1_set_infty", add |-> "g1_add", mul |-> "g1_mul",
           mul_sim |-> "g1_mul_sim", free |-> "g1_free", neg |-> "g1_neg",
           read_bin |-> "g1_read_bin"],
   G2 |-> [null |-> "g2_null", new |-> "g2_new", copy |-> "g2_copy",
           set_infty |-> "g2_set_infty", add |-> "g2_add", mul |-> "g2_mul",
           mul_sim |-> "g2_mul_sim", free |-> "g2_free", neg |-> "g2_neg",
           read_bin |-> "g2_read_bin"]]

\* One backend call; n is its count argument (1 when it has none).
Call(f, n) == [f |-> f, n |-> n]

Logged(m, f) == [m EXCEPT !.log = Append(@, Call(f, 1))]

Write(m, dst, v) == [m EXCEPT !.heap[dst].val = v]

\* g1_set_infty / g2_set_infty: the neutral element.
g_set_infty(G, m, dst) == Write(Logged(m, bk[G].set_infty), dst, 0)

\* g1_copy / g2_copy (destination first).
g_copy(G, m, dst, src) == Write(Logged(m, bk[G].copy), dst, m.heap[src].val)

\* g1_add / g2_add: dst = a + b on the curve.
g_add(G, m, dst, a, b) ==
  Write(Logged(m, bk[G].add), dst, (m.heap[a].val + m.heap[b].val) % Order)

\* g1_mul / g2_mul: dst = k * p.
g_mul(G, m, dst, p, k) ==
  Write(Logged(m, bk[G].mul), dst, (m.heap[p].val * m.heap[k].val) % Order)

\* g1_neg / g2_neg: dst = -p.
g_neg(G, m, dst, p) == Write(Logged(m, bk[G].neg), dst, (0 - m.heap[p].val) % Order)

\* g1_mul_sim / g2_mul_sim: dst = k * p + l * q in one interleaved pass.
g_mul_sim(G, m, dst, p, k, q, l) ==
  Write(Logged(m, bk[G].mul_sim), dst,
        (m.heap[p].val * m.heap[k].val + m.heap[q].val * m.heap[l].val) % Order)

(* ----------------------- G1 / G2 construction ------------------------- *)

\* G1() / G2(): __cinit__ nulls the buffer, __init__ allocates it.  The new
\* object is the last cell of the heap.
G_new(G, m) ==
  [m EXCEPT !.heap = Append(@, [type |-> G, val |-> Undef]),
            !.log = @ \o <<Call(bk[G].null, 1), Call(bk[G].new, 1)>>]

Last(m) == Len(m.heap)

\* A bytes object that is handed to G1 / G2 / GT, described by what the
\* backend finds in it: kind "valid" is the encoding of the element val.
Encoded(kind, val) == [py |-> "bytes", kind |-> kind, val |-> val]

\* Content of a buffer that holds a point that is no element of the group.
NoElement == 0 - 2

\* g1_read_bin / g2_read_bin / gt_read_bin: a valid encoding is decoded into
\* dst; a buffer of the wrong length is refused inside the backend and dst is
\* left as it was; any other buffer is decoded into a point outside the group.
read_bin(m, f, dst, buf) ==
  IF buf.kind = "valid" THEN Write(Logged(m, f), dst, buf.val)
  ELSE IF buf.kind = "wrong length" THEN Logged(m, f)
  ELSE Write(Logged(m, f), dst, NoElement)

\* g1_map / g2_map: dst = the point the backend's fixed hash function gives the
\* len bytes at bin.  The function has no state and draws no randomness; it
\* stands here as one fixed function of the bytes.
g_map(G, m, dst, bin, len) ==
  LET f == IF G = "G1" THEN "g1_map" ELSE "g2_map"
      digest == IF len = 0 THEN 1 ELSE (bin[1] + 2 * bin[len] + len) % Order
  IN  Write(Logged(m, f), dst, digest)

\* hash_to_G1(data) / hash_to_G2(data): the argument is typed bytes; &view[0]
\* is a checked index into the buffer, out of bounds on an empty one.
hash_to_G(G, m, data) ==
  IF ~isinstance(data, "bytes")
  THEN [m |-> m, exc |-> "TypeError", index |-> NoIndex, ret |-> PyNone]
  ELSE IF Len(data.items) = 0
  THEN [m |-> m, exc |-> "IndexError", index |-> NoIndex, ret |-> PyNone]
  ELSE LET m1 == G_new(G, m)
           m2 == g_map(G, m1, Last(m1), data.items, Len(data.items))
       IN  [m |-> m2, exc |-> "none", index |-> NoIndex, ret |-> Ref(G, Last(m1))]

\* G1(buf) / G2(buf) as a Python call: the new object, read from buf when
\* there is one.
G_ctor(G, m, buf) ==
  LET m1 == G_new(G, m)
      m2 == IF buf # PyNone THEN read_bin(m1, bk[G].read_bin, Last(m1), buf) ELSE m1
  IN  [m |-> m2, exc |-> "none", index |-> NoIndex, ret |-> Ref(G, Last(m1))]

\* BN(): __cinit__ nulls the buffer, __init__ allocates it.
BN_new(m) ==
  [m EXCEPT !.heap = Append(@, [type |-> "BN", val |-> Undef]),
            !.log = @ \o <<Call("bn_null", 1), Call("bn_new", 1)>>]

\* A bytes object: its bytes, first to last.
PyBytes(items) == [py |-> "bytes", items |-> items]

\* The non-negative integer whose big-endian bytes are the first n of bin.
RECURSIVE bin_value(_, _)
bin_value(bin, n) == IF n = 0 THEN 0 ELSE bin_value(bin, n - 1) * 2 ^ 8 + bin[n]

\* bn_read_bin: dst = the non-negative integer with the given big-endian bytes.
bn_read_bin(m, dst, bin, len) == Write(Logged(m, "bn_read_bin"), dst, bin_value(bin, len))

\* BN(buf) as a Python call: the new object, read from buf when there is one.
BN_ctor(m, buf) ==
  LET m1 == BN_new(m)
      m2 == IF buf # PyNone THEN bn_read_bin(m1, Last(m1), buf.items, Len(buf.items))
            ELSE m1
  IN  [m |-> m2, exc |-> "none", index |-> NoIndex, ret |-> Ref("BN", Last(m1))]

\* A variant of generator_G1 / generator_G2 that raises the generator to the
\* exponent through the generic g1_mul / g2_mul.
generator_G_generic_mul(G, m, exponent) ==
  LET m1 == G_new(G, m)
      get_gen == IF G = "G1" THEN "g1_get_gen" ELSE "g2_get_gen"
      m2 == Write(Logged(m1, get_gen), Last(m1), 1)
      m3 == IF exponent # PyNone THEN g_mul(G, m2, Last(m1), Last(m1), exponent.id) ELSE m2
  IN  [m |-> m3, exc |-> "none", index |-> NoIndex, ret |-> Ref(G, Last(m1))]

\* generator_G1(exponent) / generator_G2(exponent): the generator through
\* g1_get_gen / g2_get_gen, or raised to exponent through g1_mul_gen / g2_mul_gen.
generator_G(G, m, exponent) ==
  LET m1 == G_new(G, m)
      get_gen == IF G = "G1" THEN "g1_get_gen" ELSE "g2_get_gen"
      mul_gen == IF G = "G1" THEN "g1_mul_gen" ELSE "g2_mul_gen"
      m2 == IF exponent # PyNone
            THEN Write(Logged(m1, mul_gen), Last(m1), m1.heap[exponent.id].val % Order)
            ELSE Write(Logged(m1, get_gen), Last(m1), 1)
  IN  [m |-> m2, exc |-> "none", index |-> NoIndex, ret |-> Ref(G, Last(m1))]

\* rand_G1() / rand_G2(): g1_rand / g2_rand samples the element v.
rand_G(G, m, v) ==
  LET m1 == G_new(G, m)
      f == IF G = "G1" THEN "g1_rand" ELSE "g2_rand"
  IN  [m |-> Write(Logged(m1, f), Last(m1), v), exc |-> "none", index |-> NoIndex,
       ret |-> Ref(G, Last(m1))]

(* ----------------------------- mul_sim -------------------------------- *)

\* length & ~1 on a size_t: bit 0 cleared.
ClearBit0(n) == 2 * (n \div 2)

Raised(m, exc, index) == [m |-> m, exc |-> exc, index |-> index]

Fine(m) == Raised(m, "none", NoIndex)

\* A variant of the loop that checks the second operand of a pair first.
RECURSIVE mul_sim_pairs_second_first(_, _, _, _, _, _, _, _)
mul_sim_pairs_second_first(G, m, values, scalars, idx, stop, tmp1, result) ==
  IF idx >= stop THEN Fine(m)
  ELSE IF ~isinstance(At(values, idx + 1), G) \/ ~isinstance(At(scalars, idx + 1), "BN")
  THEN Raised(m, "TypeError", idx + 1)
  ELSE IF ~isinstance(At(values, idx), G) \/ ~isinstance(At(scalars, idx), "BN")
  THEN Raised(m, "TypeError", idx)
  ELSE LET m1 == g_mul_sim(G, m, tmp1, At(values, idx).id, At(scalars, idx).id,
                           At(values, idx + 1).id, At(scalars, idx + 1).id)
           m2 == g_add(G, m1, result, result, tmp1)
       IN  mul_sim_pairs_second_first(G, m2, values, scalars, idx + 2, stop, tmp1, result)

\* The loop over the pairs of operands: for idx in range(0, length & ~1, 2).
RECURSIVE mul_sim_pairs(_, _, _, _, _, _, _, _)
mul_sim_pairs(G, m, values, scalars, idx, stop, tmp1, result) ==
  IF idx >= stop THEN Fine(m)
  ELSE IF ~isinstance(At(values, idx), G) \/ ~isinstance(At(scalars, idx), "BN")
  THEN Raised(m, "TypeError", idx)
  ELSE IF ~isinstance(At(values, idx + 1), G) \/ ~isinstance(At(scalars, idx + 1), "BN")
  THEN Raised(m, "TypeError", idx + 1)
  ELSE LET lhs == At(values, idx).id
           lhs_scalar == At(scalars, idx).id
           rhs == At(values, idx + 1).id
           rhs_scalar == At(scalars, idx + 1).id
           m1 == g_mul_sim(G, m, tmp1, lhs, lhs_scalar, rhs, rhs_scalar)
           m2 == g_add(G, m1, result, result, tmp1)
       IN  mul_sim_pairs(G, m2, values, scalars, idx + 2, stop, tmp1, result)

\* A variant of the trailing step that multiplies and does not accumulate.
mul_sim_tail_not_added(G, m, values, scalars, length, tmp1, result) ==
  IF length % 2 = 0 THEN Fine(m)
  ELSE LET idx == length - 1 IN
       IF ~isinstance(At(values, idx), G) \/ ~isinstance(At(scalars, idx), "BN")
       THEN Raised(m, "TypeError", idx)
       ELSE Fine(g_mul(G, m, tmp1, At(values, idx).id, At(scalars, idx).id))

\* The trailing operand of an odd-length input: if length & 1.
mul_sim_tail(G, m, values, scalars, length, tmp1, result) ==
  IF length % 2 = 0 THEN Fine(m)
  ELSE LET idx == length - 1 IN
       IF ~isinstance(At(values, idx), G) \/ ~isinstance(At(scalars, idx), "BN")
       THEN Raised(m, "TypeError", idx)
       ELSE LET lhs == At(values, idx).id
                lhs_scalar == At(scalars, idx).id
                m1 == g_mul(G, m, tmp1, lhs, lhs_scalar)
            IN  Fine(g_add(G, m1, result, result, tmp1))

\* What a call leaves behind: the heap, the backend calls made, the exception
\* raised ("none" when it returned) and the value returned.
Outcome(r, ret) ==
  [heap |-> r.m.heap, log |-> r.m.log, g1s |-> r.m.g1s, g2s |-> r.m.g2s,
   exc |-> r.exc, index |-> r.index,
   ret |-> IF r.exc = "none" THEN ret ELSE PyNone]

\* The start of a call on heap H: no backend call made, no temporary array.
Entry(H) == [heap |-> H, log |-> <<>>, g1s |-> <<>>, g2s |-> <<>>]

\* A variant of mul_sim that accumulates into the base it was given.
mul_sim_into_base(G, H, values, scalars, base) ==
  LET length == Len(values)
      m_tmp1 == G_new(G, Entry(H))
      tmp1 == Last(m_tmp1)
      m_result == G_new(G, m_tmp1)
      result == IF base # PyNone THEN base.id ELSE Last(m_result)
  IN  IF length # Len(scalars)
      THEN Outcome(Raised(m_result, "ValueError", NoIndex), PyNone)
      ELSE LET m0 == IF base # PyNone THEN m_result
                     ELSE g_set_infty(G, m_result, result)
               r1 == mul_sim_pairs(G, m0, values, scalars, 0, ClearBit0(length),
                                   tmp1, result)
               r2 == IF r1.exc # "none" THEN r1
                     ELSE mul_sim_tail(G, r1.m, values, scalars, length, tmp1, result)
           IN  Outcome(r2, Ref(G, result))

\* A variant of mul_sim that sets up the result before it compares the lengths.
mul_sim_late_length_check(G, H, values, scalars, base) ==
  LET length == Len(values)
      m_tmp1 == G_new(G, Entry(H))
      tmp1 == Last(m_tmp1)
      m_result == G_new(G, m_tmp1)
      result == Last(m_result)
      m0 == IF base # PyNone
            THEN g_copy(G, m_result, result, base.id)
            ELSE g_set_infty(G, m_result, result)
  IN  IF length # Len(scalars)
      THEN Outcome(Raised(m0, "ValueError", NoIndex), PyNone)
      ELSE LET r1 == mul_sim_pairs(G, m0, values, scalars, 0, ClearBit0(length),
                                   tmp1, result)
               r2 == IF r1.exc # "none" THEN r1
                     ELSE mul_sim_tail(G, r1.m, values, scalars, length, tmp1, result)
           IN  Outcome(r2, Ref(G, result))

\* mul_sim_G1 / mul_sim_G2 (G names the group), called on heap H.
mul_sim(G, H, values, scalars, base) ==
  LET length == Len(values)
      m_tmp1 == G_new(G, Entry(H))
      tmp1 == Last(m_tmp1)
      m_result == G_new(G, m_tmp1)
      result == Last(m_result)
  IN  IF length # Len(scalars)
      THEN Outcome(Raised(m_result, "ValueError", NoIndex), PyNone)
      ELSE LET m0 == IF base # PyNone
                     THEN g_copy(G, m_result, result, base.id)
                     ELSE g_set_infty(G, m_result, result)
               r1 == mul_sim_pairs(G, m0, values, scalars, 0, ClearBit0(length),
                                   tmp1, result)
               r2 == IF r1.exc # "none" THEN r1
                     ELSE mul_sim_tail(G, r1.m, values, scalars, length, tmp1, result)
           IN  Outcome(r2, Ref(G, result))

mul_sim_G1(H, values, scalars, base) == mul_sim("G1", H, values, scalars, base)

mul_sim_G2(H, values, scalars, base) == mul_sim("G2", H, values, scalars, base)

Returned(m, ret) == [m |-> m, exc |-> "none", index |-> NoIndex, ret |-> ret]

(* ------------------------------- BN ----------------------------------- *)

\* The size of a backend digit (dig_t) in bits, scaled down.
WSIZE == 2

Abs(n) == IF n < 0 THEN 0 - n ELSE n

\* _PyLong_NumBits: the number of bits of the magnitude, 0 for 0.
RECURSIVE _PyLong_NumBits(_)
_PyLong_NumBits(n) == IF Abs(n) = 0 THEN 0 ELSE 1 + _PyLong_NumBits(Abs(n) \div 2)

\* cdef relic.dig_t mask = -1: every bit of a digit set.
mask == 2 ^ WSIZE - 1

\* data >> k on a non-negative Python int.
ShiftRight(data, k) == data \div (2 ^ k)

\* x & mask for the mask of all ones.
AndMask(x) == x % (mask + 1)

\* The value of the first n digits of raw, least significant first.
RECURSIVE raw_value(_, _)
raw_value(raw, n) ==
  IF n = 0 THEN 0 ELSE raw_value(raw, n - 1) + raw[n] * 2 ^ (WSIZE * (n - 1))

\* bn_read_raw: dst = the non-negative integer with the given digits.
bn_read_raw(m, dst, raw, len) ==
  Write([m EXCEPT !.log = Append(@, [f |-> "bn_read_raw", n |-> len, raw |-> raw])],
        dst, raw_value(raw, len))

\* The number of digits of WSIZE bits of the positive integer n.
RECURSIVE DigitsOf(_)
DigitsOf(n) == IF n = 0 THEN 0 ELSE 1 + DigitsOf(n \div 2 ^ WSIZE)

\* bn_neg: dst = -a.
bn_neg(m, dst, a) == Write(Logged(m, "bn_neg"), dst, 0 - m.heap[a].val)

\* A variant of the conversion that sizes the buffer by whole digits below the
\* top bit, one digit short when the bit length is no multiple of WSIZE.
BN_from_int_implementation_floor(m, data) ==
  LET length == _PyLong_NumBits(data) \div WSIZE
      m1 == BN_new(m)
      result == Last(m1)
      m2 == [m1 EXCEPT !.log = Append(@, Call("malloc", length))]
      buf == [idx \in 1 .. length |-> AndMask(ShiftRight(data, WSIZE * (idx - 1)))]
      m3 == bn_read_raw(m2, result, buf, length)
  IN  Returned(Logged(m3, "free"), Ref("BN", result))

\* BN_from_int_implementation(data) for data >= 0: the digits of data are put
\* into a buffer and read by the backend.
BN_from_int_implementation(m, data) ==
  LET length == (_PyLong_NumBits(data) + WSIZE - 1) \div WSIZE
      m1 == BN_new(m)
      result == Last(m1)
      m2 == [m1 EXCEPT !.log = Append(@, Call("malloc", length))]
      buf == [idx \in 1 .. length |-> AndMask(ShiftRight(data, WSIZE * (idx - 1)))]
      m3 == bn_read_raw(m2, result, buf, length)
  IN  Returned(Logged(m3, "free"), Ref("BN", result))

\* BN_from_int(data): the magnitude is converted, a negative value negated.
BN_from_int(m, data) ==
  IF data < 0
  THEN LET r == BN_from_int_implementation(m, 0 - data)
       IN  Returned(bn_neg(r.m, r.ret.id, r.ret.id), r.ret)
  ELSE BN_from_int_implementation(m, data)

\* bn_size_bin: the number of bytes of the magnitude, 0 for zero.
RECURSIVE bn_size_bin(_)
bn_size_bin(v) == IF Abs(v) = 0 THEN 0 ELSE 1 + bn_size_bin(Abs(v) \div 2 ^ 8)

\* bn_write_bin: the magnitude in size bytes, most significant first.
bn_write_bin(m, size, a) ==
  LET bin == [i \in 1 .. size |-> (Abs(m.heap[a].val) \div (2 ^ 8) ^ (size - i)) % 2 ^ 8]
  IN  [m |-> [m EXCEPT !.log = Append(@, [f |-> "bn_write_bin", n |-> size, raw |-> bin])],
       bin |-> bin]

\* A variant of __bytes__ that writes the bytes of the buffer in reverse.
BN_bytes_reversed(m, self) ==
  LET size == bn_size_bin(m.heap[self.id].val)
      w == bn_write_bin(Logged(m, "bn_size_bin"), size, self.id)
  IN  Returned(w.m, PyBytes([i \in 1 .. size |-> w.bin[size + 1 - i]]))

\* BN.__bytes__: a buffer of bn_size_bin bytes, filled by bn_write_bin.
BN_bytes(m, self) ==
  LET size == bn_size_bin(m.heap[self.id].val)
      w == bn_write_bin(Logged(m, "bn_size_bin"), size, self.id)
  IN  Returned(w.m, PyBytes(w.bin))

\* bn_add / bn_sub / bn_mul (f names the function): dst = a + b, a - b, a * b.
bn_arith(f, m, dst, a, b) ==
  LET x == m.heap[a].val
      y == m.heap[b].val
  IN  Write(Logged(m, f), dst,
            CASE f = "bn_add" -> x + y [] f = "bn_sub" -> x - y [] f = "bn_mul" -> x * y)

\* __iadd__ / __isub__ / __imul__: self is updated through f and returned.
BN_inplace(f, m, self, other) ==
  IF isinstance(other, "BN")
  THEN Returned(bn_arith(f, m, self.id, self.id, other.id), self)
  ELSE IF isinstance(other, "int")
  THEN LET tmp == BN_from_int(m, other.val)
       IN  Returned(bn_arith(f, tmp.m, self.id, self.id, tmp.ret.id), self)
  ELSE Returned(m, NotImplemented)

\* self_bn of __add__ / __sub__ / __mul__: self when it is a BN, the
\* conversion of self when it is an int (the reflected call).
BN_self_bn(m, self) ==
  IF isinstance(self, "BN") THEN Returned(m, self)
  ELSE IF isinstance(self, "int") THEN BN_from_int(m, self.val)
  ELSE Returned(m, NotImplemented)

\* A variant of the value-returning operators that hands the converted int
\* operand to the backend first.
BN_binop_int_first(f, m, self, other) ==
  LET self_bn == BN_self_bn(m, self)
  IN  IF self_bn.ret = NotImplemented THEN self_bn
      ELSE IF isinstance(other, "BN")
      THEN LET result == BN_ctor(self_bn.m, PyNone)
           IN  Returned(bn_arith(f, result.m, result.ret.id, self_bn.ret.id, other.id),
                        result.ret)
      ELSE IF isinstance(other, "int")
      THEN LET result == BN_from_int(self_bn.m, other.val)
           IN  Returned(bn_arith(f, result.m, result.ret.id, result.ret.id, self_bn.ret.id),
                        result.ret)
      ELSE Returned(self_bn.m, NotImplemented)

\* __add__ / __sub__ / __mul__: a new BN, self_bn combined with other through f.
BN_binop(f, m, self, other) ==
  LET self_bn == BN_self_bn(m, self)
  IN  IF self_bn.ret = NotImplemented THEN self_bn
      ELSE IF isinstance(other, "BN")
      THEN LET result == BN_ctor(self_bn.m, PyNone)
           IN  Returned(bn_arith(f, result.m, result.ret.id, self_bn.ret.id, other.id),
                        result.ret)
      ELSE IF isinstance(other, "int")
      THEN LET result == BN_from_int(self_bn.m, other.val)
           IN  Returned(bn_arith(f, result.m, result.ret.id, self_bn.ret.id, result.ret.id),
                        result.ret)
      ELSE Returned(self_bn.m, NotImplemented)

BN_iadd(m, self, other) == BN_inplace("bn_add", m, self, other)

BN_add(m, self, other) == BN_binop("bn_add", m, self, other)

BN_isub(m, self, other) == BN_inplace("bn_sub", m, self, other)

BN_sub(m, self, other) == BN_binop("bn_sub", m, self, other)

BN_imul(m, self, other) == BN_inplace("bn_mul", m, self, other)

BN_mul(m, self, other) == BN_binop("bn_mul", m, self, other)

PyBool(b) == [py |-> "bool", val |-> b]

\* The comparison operators as __richcmp__ receives them.
Py_LT == "Py_LT"

Py_LE == "Py_LE"

Py_EQ == "Py_EQ"

Py_NE == "Py_NE"

Py_GT == "Py_GT"

Py_GE == "Py_GE"

\* bn_cmp: below zero, zero or above zero as a is less than, equal to or
\* greater than b, as signed integers.
bn_cmp(a, b) == IF a < b THEN 0 - 1 ELSE IF a = b THEN 0 ELSE 1

\* A variant of __richcmp__ without the branch for Py_GT, which then falls
\* through to the last return.
richcmp_without_gt(m, self, other, op) ==
  IF ~isinstance(other, "BN") THEN Returned(m, NotImplemented)
  ELSE LET ret == bn_cmp(m.heap[self.id].val, m.heap[other.id].val)
           m1 == Logged(m, "bn_cmp")
       IN  IF op = Py_EQ THEN Returned(m1, PyBool(ret = 0))
           ELSE IF op = Py_NE THEN Returned(m1, PyBool(ret # 0))
           ELSE IF op = Py_LT THEN Returned(m1, PyBool(ret < 0))
           ELSE IF op = Py_LE THEN Returned(m1, PyBool(ret <= 0))
           ELSE Returned(m1, PyBool(ret >= 0))

\* BN.__richcmp__(self, other, op).
richcmp(m, self, other, op) ==
  IF ~isinstance(other, "BN") THEN Returned(m, NotImplemented)
  ELSE LET ret == bn_cmp(m.heap[self.id].val, m.heap[other.id].val)
           m1 == Logged(m, "bn_cmp")
       IN  IF op = Py_EQ THEN Returned(m1, PyBool(ret = 0))
           ELSE IF op = Py_NE THEN Returned(m1, PyBool(ret # 0))
           ELSE IF op = Py_LT THEN Returned(m1, PyBool(ret < 0))
           ELSE IF op = Py_LE THEN Returned(m1, PyBool(ret <= 0))
           ELSE IF op = Py_GT THEN Returned(m1, PyBool(ret > 0))
           ELSE Returned(m1, PyBool(ret >= 0))

\* bn_copy (destination first).
bn_copy(m, dst, src) == Write(Logged(m, "bn_copy"), dst, m.heap[src].val)

\* A variant of copy that returns the object itself.
BN_copy_alias(m, self) == Returned(m, self)

\* BN.copy: a new BN that holds a copy of the value of self.
BN_copy(m, self) ==
  LET m1 == BN_new(m)
  IN  Returned(bn_copy(m1, Last(m1), self.id), Ref("BN", Last(m1)))

\* bn_size_raw: the number of digits in use, one for zero.
bn_size_raw(v) == IF v = 0 THEN 1 ELSE DigitsOf(Abs(v))

\* bn_write_raw: the digits of the magnitude, least significant first.
bn_write_raw(m, len, a) ==
  LET raw == [idx \in 1 .. len |-> (Abs(m.heap[a].val) \div 2 ^ (WSIZE * (idx - 1))) % 2 ^ WSIZE]
  IN  [m |-> [m EXCEPT !.log = Append(@, [f |-> "bn_write_raw", n |-> len, raw |-> raw])],
       raw |-> raw]

\* BN.__int__: result |= buf[idx] << (WSIZE * idx) over the digits.  The digits
\* lie in disjoint bit ranges, so the bitwise or of the shifted digits is their
\* sum.
BN_int(m, self) ==
  LET length == bn_size_raw(m.heap[self.id].val)
      m1 == [m EXCEPT !.log = Append(@, Call("malloc", length))]
      w == bn_write_raw(m1, length, self.id)
  IN  Returned(Logged(w.m, "free"), PyInt(raw_value(w.raw, length)))

\* bn_mod: dst = a reduced into 0 .. b-1, for a modulus b > 0.
bn_mod(m, dst, a, b) == Write(Logged(m, "bn_mod"), dst, m.heap[a].val % m.heap[b].val)

\* BN.__mod__: a new BN, self reduced modulo other.
BN_mod(m, self, other) ==
  LET r == BN_ctor(m, PyNone)
  IN  Returned(bn_mod(r.m, r.ret.id, self.id, other.id), r.ret)

RECURSIVE Gcd(_, _)
Gcd(a, b) == IF b = 0 THEN Abs(a) ELSE Gcd(Abs(b), Abs(a) % Abs(b))

\* The coefficients d the extended Euclidean algorithm may return for a and
\* b > 0: a*d + b*e = gcd(a, b) for some e, with |d| <= b.
BezoutCoefficients(a, b) == {d \in (0 - b) .. b : (Gcd(a, b) - a * d) % b = 0}

\* bn_gcd_ext(c, d, NULL, a, b): c = gcd(a, b) and d = coeff, a coefficient of a.
bn_gcd_ext(m, c, d, a, b, coeff) ==
  Write(Write(Logged(m, "bn_gcd_ext"), c, Gcd(m.heap[a].val, m.heap[b].val)), d, coeff)

\* A variant of mod_inv that returns the coefficient as the backend gave it.
mod_inv_unreduced(m, self, mod, coeff) ==
  LET result == BN_ctor(m, PyNone)
      c == BN_ctor(result.m, PyNone)
  IN  Returned(bn_gcd_ext(c.m, c.ret.id, result.ret.id, self.id, mod.id, coeff),
               result.ret)

\* BN.mod_inv(mod): the coefficient of self from bn_gcd_ext, reduced modulo mod.
\* coeff is the coefficient the backend computes.
mod_inv(m, self, mod, coeff) ==
  LET result == BN_ctor(m, PyNone)
      c == BN_ctor(result.m, PyNone)
      m1 == bn_gcd_ext(c.m, c.ret.id, result.ret.id, self.id, mod.id, coeff)
  IN  BN_mod(m1, result.ret, mod)

\* A str object: its characters, first to last.
PyStr(items) == [py |-> "str", items |-> items]

\* The characters the backend writes and reads as the digits 0 .. 15.
util_conv_char ==
  <<"0", "1", "2", "3", "4", "5", "6", "7", "8", "9", "A", "B", "C", "D", "E", "F">>

\* The upper-case form of a character, which the backend takes for a radix
\* below 36.
RLC_UPP(c) ==
  CASE c = "a" -> "A" [] c = "b" -> "B" [] c = "c" -> "C" [] c = "d" -> "D"
    [] c = "e" -> "E" [] c = "f" -> "F" [] OTHER -> c

\* Whether c stands for a digit of the radix, and for which.
IsDigit(c, radix) == \E i \in 1 .. radix : util_conv_char[i] = RLC_UPP(c)

DigitOf(c) == (CHOOSE i \in 1 .. Len(util_conv_char) : util_conv_char[i] = RLC_UPP(c)) - 1

\* The loop of bn_read_str from position j with the value acc: it ends at the
\* end of the string and at the first character that is no digit of the radix.
RECURSIVE read_digits(_, _, _, _)
read_digits(str, j, radix, acc) ==
  IF j > Len(str) \/ ~IsDigit(str[j], radix) THEN acc
  ELSE read_digits(str, j + 1, radix, acc * radix + DigitOf(str[j]))

\* bn_read_str: dst = the integer written in str, with an optional leading "-".
bn_read_str(m, dst, str, radix) ==
  LET negative == Len(str) > 0 /\ str[1] = "-"
      v == read_digits(str, IF negative THEN 2 ELSE 1, radix, 0)
  IN  Write(Logged(m, "bn_read_str"), dst, IF negative THEN 0 - v ELSE v)

\* The digits of the magnitude v in the radix, most significant first.
RECURSIVE write_digits(_, _)
write_digits(v, radix) ==
  IF v < radix THEN <<util_conv_char[v + 1]>>
  ELSE Append(write_digits(v \div radix, radix), util_conv_char[(v % radix) + 1])

\* bn_write_str: the characters of a in the radix, "-" first when negative.
bn_write_str(m, a, radix) ==
  LET v == m.heap[a].val
  IN  (IF v < 0 THEN <<"-">> ELSE <<>>) \o write_digits(Abs(v), radix)

\* BN.as_string(radix) and BN.__str__ (radix 16).
as_string(m, self, radix) ==
  Returned([m EXCEPT !.log = @ \o <<Call("bn_size_str", 1), Call("bn_write_str", 1)>>],
           PyStr(bn_write_str(m, self.id, radix)))

\* The characters data.encode("ascii") accepts.
Ascii ==
  {util_conv_char[i] : i \in 1 .. Len(util_conv_char)}
    \cup {"a", "b", "c", "d", "e", "f", "z", "-"}

\* BN.from_str(data, radix): the string is encoded and read by the backend;
\* nothing is checked after the read.
from_str(m, data, radix) ==
  IF \E i \in 1 .. Len(data.items) : data.items[i] \notin Ascii
  THEN Raised(m, "UnicodeEncodeError", NoIndex)
  ELSE LET bn == BN_ctor(m, PyNone)
       IN  Returned(bn_read_str(bn.m, bn.ret.id, data.items, radix), bn.ret)

(* -------------------- G1 / G2 operators and helpers ------------------- *)

\* neutral_G1() / neutral_G2().
neutral_G(G, m) ==
  LET m1 == G_new(G, m) IN Returned(g_set_infty(G, m1, Last(m1)), Ref(G, Last(m1)))

\* G1.__mul__ / G2.__mul__: a new element, self composed with other.
G_mul(G, m, self, other) ==
  LET m1 == G_new(G, m)
  IN  Returned(g_add(G, m1, Last(m1), self.id, other.id), Ref(G, Last(m1)))

\* G1.__imul__ / G2.__imul__: self is composed with other in place; the method
\* has no return statement, so the call gives None.
G_imul(G, m, self, other) ==
  Returned(g_add(G, m, self.id, self.id, other.id), PyNone)

\* G1.__pow__ / G2.__pow__: a new element, self raised to exp.  A BN goes to
\* the backend as it is; for a negative int the element is inverted and raised
\* to the magnitude.
G_pow(G, m, self, exp) ==
  LET m1 == G_new(G, m)
      result == Last(m1)
  IN  IF isinstance(exp, "BN")
      THEN Returned(g_mul(G, m1, result, self.id, exp.id), Ref(G, result))
      ELSE IF isinstance(exp, "int")
      THEN IF exp.val < 0
           THEN LET m2 == g_neg(G, m1, result, self.id)
                    tmp == BN_from_int(m2, 0 - exp.val)
                IN  Returned(g_mul(G, tmp.m, result, result, tmp.ret.id), Ref(G, result))
           ELSE LET tmp == BN_from_int(m1, exp.val)
                IN  Returned(g_mul(G, tmp.m, result, self.id, tmp.ret.id), Ref(G, result))
      ELSE Returned(m1, NotImplemented)

(* --------------------------- GT and pairing --------------------------- *)

\* GT(): __cinit__ nulls the buffer, __init__ allocates it.
GT_new(m) ==
  [m EXCEPT !.heap = Append(@, [type |-> "GT", val |-> Undef]),
            !.log = @ \o <<Call("gt_null", 1), Call("gt_new", 1)>>]

\* GT(buf) as a Python call: the new object, read from buf when there is one.
GT_ctor(m, buf) ==
  LET m1 == GT_new(m)
      m2 == IF buf # PyNone THEN read_bin(m1, "gt_read_bin", Last(m1), buf) ELSE m1
  IN  [m |-> m2, exc |-> "none", index |-> NoIndex, ret |-> Ref("GT", Last(m1))]

\* gt_set_unity: the neutral element of GT.
gt_set_unity(m, dst) == Write(Logged(m, "gt_set_unity"), dst, 0)

\* gt_mul: dst = a * b in GT.
gt_mul(m, dst, a, b) ==
  Write(Logged(m, "gt_mul"), dst, (m.heap[a].val + m.heap[b].val) % Order)

\* gt_exp: dst = a raised to k.
gt_exp(m, dst, a, k) ==
  Write(Logged(m, "gt_exp"), dst, (m.heap[a].val * m.heap[k].val) % Order)

\* gt_inv: dst = the inverse of a.
gt_inv(m, dst, a) == Write(Logged(m, "gt_inv"), dst, (0 - m.heap[a].val) % Order)

\* GT.__imul__: self is composed with other in place and returned.
GT_imul(m, self, other) ==
  Returned(gt_mul(m, self.id, self.id, other.id), self)

\* A variant of GT.__pow__ that raises to the magnitude of a negative int
\* without inverting.
GT_pow_magnitude(m, self, exp) ==
  LET m1 == GT_new(m)
      result == Last(m1)
  IN  IF isinstance(exp, "BN")
      THEN Returned(gt_exp(m1, result, self.id, exp.id), Ref("GT", result))
      ELSE IF isinstance(exp, "int")
      THEN LET tmp == BN_from_int(m1, Abs(exp.val))
           IN  Returned(gt_exp(tmp.m, result, self.id, tmp.ret.id), Ref("GT", result))
      ELSE Returned(m1, NotImplemented)

\* GT.__pow__ of the combined module.
GT_pow(m, self, exp) ==
  LET m1 == GT_new(m)
      result == Last(m1)
  IN  IF isinstance(exp, "BN")
      THEN Returned(gt_exp(m1, result, self.id, exp.id), Ref("GT", result))
      ELSE IF isinstance(exp, "int")
      THEN IF exp.val < 0
           THEN LET m2 == gt_inv(m1, result, self.id)
                    tmp == BN_from_int(m2, 0 - exp.val)
                IN  Returned(gt_exp(tmp.m, result, result, tmp.ret.id), Ref("GT", result))
           ELSE LET tmp == BN_from_int(m1, exp.val)
                IN  Returned(gt_exp(tmp.m, result, self.id, tmp.ret.id), Ref("GT", result))
      ELSE Returned(m1, NotImplemented)

\* gt_get_gen: dst = the generator of GT.
gt_get_gen(m, dst) == Write(Logged(m, "gt_get_gen"), dst, 1)

\* generator_GT(exponent): the generator, or generator ** exponent.
generator_GT(m, exponent) ==
  LET m1 == GT_new(m)
      generator == Ref("GT", Last(m1))
      m2 == gt_get_gen(m1, Last(m1))
  IN  IF exponent = PyNone THEN Returned(m2, generator)
      ELSE GT_pow(m2, generator, exponent)

\* g1_cmp / g2_cmp / gt_cmp: 0 for equal elements, not 0 otherwise.
g_cmp(a, b) == IF a = b THEN 0 ELSE 2

\* G1.__eq__ / G2.__eq__ / GT.__eq__(self, other).
G_eq(G, m, self, other) ==
  IF ~isinstance(other, G) THEN Returned(m, NotImplemented)
  ELSE Returned(Logged(m, IF G = "GT" THEN "gt_cmp" ELSE IF G = "G1" THEN "g1_cmp" ELSE "g2_cmp"),
                PyBool(g_cmp(m.heap[self.id].val, m.heap[other.id].val) = 0))

\* G1.__ne__ / G2.__ne__(self, other), and GT.__ne__(self, GT other): the
\* argument of GT.__ne__ is declared GT, so that an object that is neither a
\* GT nor None is refused at the call.
G_ne(G, m, self, other) ==
  IF G = "GT" /\ ~isinstance(other, "GT") /\ other # PyNone
  THEN [m |-> m, exc |-> "TypeError", index |-> NoIndex, ret |-> PyNone]
  ELSE IF ~isinstance(other, G) THEN Returned(m, NotImplemented)
  ELSE Returned(Logged(m, IF G = "GT" THEN "gt_cmp" ELSE IF G = "G1" THEN "g1_cmp" ELSE "g2_cmp"),
                PyBool(g_cmp(m.heap[self.id].val, m.heap[other.id].val) # 0))

\* x == y and x != y as Python evaluates them on an element x: the method of
\* x, then the reflected method of y when y is an element too, then the
\* comparison of the identities of two different objects.
compare(op, m, x, y) ==
  LET Method(mm, G, self, other) ==
        IF op = "==" THEN G_eq(G, mm, self, other) ELSE G_ne(G, mm, self, other)
      r1 == Method(m, x.py, x, y)
  IN  IF r1.exc # "none" \/ r1.ret # NotImplemented THEN r1
      ELSE IF y.py \in {"G1", "G2", "GT"} /\ y.py # x.py
      THEN LET r2 == Method(r1.m, y.py, y, x)
           IN  IF r2.exc # "none" \/ r2.ret # NotImplemented THEN r2
               ELSE Returned(r2.m, PyBool(op = "!="))
      ELSE Returned(r1.m, PyBool(op = "!="))

\* GT.__pow__(GT self, BN exp, modulo) of the standalone module pyrelic/g2.pyx:
\* the exponent is declared a BN, any other object is refused at the call.
GT_pow_standalone(m, self, exp) ==
  IF ~isinstance(exp, "BN") THEN Raised(m, "TypeError", NoIndex)
  ELSE LET m1 == GT_new(m)
           result == Last(m1)
       IN  Returned(gt_exp(m1, result, self.id, exp.id), Ref("GT", result))

\* The value of the pairing e(p, q).
pairing(p, q) == (p * q) % Order

\* pc_map: dst = e(p, q).
pc_map(m, dst, p, q) ==
  Write(Logged(m, "pc_map"), dst, pairing(m.heap[p].val, m.heap[q].val))

\* The product of the pairings of the first n slots of two arrays.
RECURSIVE map_sim_value(_, _, _)
map_sim_value(ps, qs, n) ==
  IF n = 0 THEN 0
  ELSE (map_sim_value(ps, qs, n - 1) + pairing(ps[n].val, qs[n].val)) % Order

\* pc_map_sim: dst = the product of e(g1s[i], g2s[i]) over the n slots.
pc_map_sim(m, dst, n) ==
  Write([m EXCEPT !.log = Append(@, [f |-> "pc_map_sim", n |-> n,
                                     g1s |-> m.g1s, g2s |-> m.g2s])], dst,
        map_sim_value(m.g1s, m.g2s, n))

\* neutral_GT().
neutral_GT(m) ==
  LET m1 == GT_new(m) IN Returned(gt_set_unity(m1, Last(m1)), Ref("GT", Last(m1)))

\* GT.__mul__: a new element, self composed with other.
GT_mul(m, self, other) ==
  LET m1 == GT_new(m)
  IN  Returned(gt_mul(m1, Last(m1), self.id, other.id), Ref("GT", Last(m1)))

\* pair(g1, g2).
pair(m, g1, g2) ==
  LET m1 == GT_new(m) IN Returned(pc_map(m1, Last(m1), g1.id, g2.id), Ref("GT", Last(m1)))

\* The temporary array of each curve group.
arr == [G1 |-> "g1s", G2 |-> "g2s"]

NullSlot == [st |-> "null", val |-> Undef]

\* A backend call on slot idx of a temporary array; src is the buffer that is
\* read, 0 when there is none.
SlotCall(f, idx, src) == [f |-> f, n |-> 1, slot |-> idx, src |-> src]

\* malloc of an array of n slots, then g1_null / g2_null on each slot.
arr_alloc(G, m, n) ==
  [m EXCEPT ![arr[G]] = [i \in 1 .. n |-> NullSlot],
            !.log = @ \o <<Call("malloc", n)>>
                      \o [i \in 1 .. n |-> SlotCall(bk[G].null, i - 1, 0)]]

\* g1_new / g2_new on slot idx.
arr_new(G, m, idx) ==
  [m EXCEPT ![arr[G]][idx + 1] = [st |-> "new", val |-> Undef],
            !.log = Append(@, SlotCall(bk[G].new, idx, 0))]

\* g1_copy / g2_copy of the buffer src into slot idx.
arr_copy(G, m, idx, src) ==
  [m EXCEPT ![arr[G]][idx + 1].val = m.heap[src].val,
            !.log = Append(@, SlotCall(bk[G].copy, idx, src))]

\* g1_free / g2_free on slot idx: releases an allocated slot, leaves a nulled
\* one alone; a slot that was released already is released twice.
arr_free(G, m, idx) ==
  [m EXCEPT ![arr[G]][idx + 1] =
              IF @.st = "new" THEN [st |-> "freed", val |-> Undef]
              ELSE IF @.st = "freed" THEN [st |-> "freed twice", val |-> Undef]
              ELSE @,
            !.log = Append(@, SlotCall(bk[G].free, idx, 0))]

\* free of the whole array.
arr_release(G, m) == Logged(m, "free")

\* cur_args_0, cur_args_1 = args[idx]: the exception of the unpacking.  An
\* object that is no tuple cannot be unpacked, a tuple must hold two items.
Unpack2(o) ==
  IF ~isinstance(o, "tuple") THEN "TypeError"
  ELSE IF Len(o.items) # 2 THEN "ValueError"
  ELSE "none"

\* A variant of the copy loop that writes every G2 element to slot 0.
RECURSIVE pair_product_copy_g2_slot0(_, _, _, _)
pair_product_copy_g2_slot0(m, args, idx, length) ==
  IF idx >= length THEN Fine(m)
  ELSE IF Unpack2(At(args, idx)) # "none"
  THEN Raised(m, Unpack2(At(args, idx)), NoIndex)
  ELSE LET cur_args_0 == At(args, idx).items[1]
           cur_args_1 == At(args, idx).items[2]
       IN  IF ~isinstance(cur_args_0, "G1") \/ ~isinstance(cur_args_1, "G2")
           THEN Raised(m, "TypeError", idx)
           ELSE LET m1 == arr_copy("G1", arr_new("G1", m, idx), idx, cur_args_0.id)
                    m2 == arr_copy("G2", arr_new("G2", m1, 0), 0, cur_args_1.id)
                IN  pair_product_copy_g2_slot0(m2, args, idx + 1, length)

\* The loop that copies the pairs into the arrays: for idx in range(length).
RECURSIVE pair_product_copy(_, _, _, _)
pair_product_copy(m, args, idx, length) ==
  IF idx >= length THEN Fine(m)
  ELSE IF Unpack2(At(args, idx)) # "none"
  THEN Raised(m, Unpack2(At(args, idx)), NoIndex)
  ELSE LET cur_args_0 == At(args, idx).items[1]
           cur_args_1 == At(args, idx).items[2]
       IN  IF ~isinstance(cur_args_0, "G1") \/ ~isinstance(cur_args_1, "G2")
           THEN Raised(m, "TypeError", idx)
           ELSE LET m1 == arr_copy("G1", arr_new("G1", m, idx), idx, cur_args_0.id)
                    m2 == arr_copy("G2", arr_new("G2", m1, idx), idx, cur_args_1.id)
                IN  pair_product_copy(m2, args, idx + 1, length)

\* g1_free / g2_free over the slots in the given order of indices.
RECURSIVE arr_free_all(_, _, _)
arr_free_all(G, m, order) ==
  IF order = <<>> THEN m
  ELSE arr_free_all(G, arr_free(G, m, Head(order)), Tail(order))

Forward(n) == [i \in 1 .. n |-> i - 1]

Reversed(n) == [i \in 1 .. n |-> n - i]

\* The single pair: if length == 1.
pair_product_single(m, result, args) ==
  IF Unpack2(At(args, 0)) # "none"
  THEN Raised(m, Unpack2(At(args, 0)), NoIndex)
  ELSE LET cur_args_0 == At(args, 0).items[1]
           cur_args_1 == At(args, 0).items[2]
       IN  IF ~isinstance(cur_args_0, "G1") \/ ~isinstance(cur_args_1, "G2")
           THEN Raised(m, "TypeError", 0)
           ELSE Fine(pc_map(m, result, cur_args_0.id, cur_args_1.id))

\* A variant of the batched evaluation that calls pc_map_sim whether or not
\* the copy loop came to its end.
pair_product_batch_sim_always(m, result, args, order) ==
  LET length == Len(args)
      m1 == arr_alloc("G2", arr_alloc("G1", m, length), length)
      r == pair_product_copy(m1, args, 0, length)
      m2 == pc_map_sim(r.m, result, length)
      m3 == arr_free_all("G1", arr_free_all("G2", m2, order), order)
      m4 == arr_release("G1", arr_release("G2", m3))
  IN  Raised(m4, r.exc, r.index)

\* The batched evaluation of two or more pairs: the two try / finally blocks.
\* order is the order in which the slots are released.
pair_product_batch(m, result, args, order) ==
  LET length == Len(args)
      m1 == arr_alloc("G2", arr_alloc("G1", m, length), length)
      r == pair_product_copy(m1, args, 0, length)
      m2 == IF r.exc = "none" THEN pc_map_sim(r.m, result, length) ELSE r.m
      m3 == arr_free_all("G1", arr_free_all("G2", m2, order), order)
      m4 == arr_release("G1", arr_release("G2", m3))
  IN  Raised(m4, r.exc, r.index)

\* A variant of pair_product that takes the single-pair path for two pairs too.
pair_product_single_for_two(H, args) ==
  LET length == Len(args)
      m == GT_new(Entry(H))
      result == Last(m)
  IN  IF length = 0 THEN Outcome(Fine(gt_set_unity(m, result)), Ref("GT", result))
      ELSE IF length <= 2
      THEN Outcome(pair_product_single(m, result, args), Ref("GT", result))
      ELSE Outcome(pair_product_batch(m, result, args, Reversed(length)),
                   Ref("GT", result))

\* pair_product(*args) of the combined module.
pair_product(H, args) ==
  LET length == Len(args)
      m == GT_new(Entry(H))
      result == Last(m)
  IN  IF length = 0 THEN Outcome(Fine(gt_set_unity(m, result)), Ref("GT", result))
      ELSE IF length = 1
      THEN Outcome(pair_product_single(m, result, args), Ref("GT", result))
      ELSE Outcome(pair_product_batch(m, result, args, Reversed(length)),
                   Ref("GT", result))

\* pair_product(*args) of the standalone module pyrelic/pair.pyx.
pair_product_standalone(H, args) ==
  LET length == Len(args)
      m == GT_new(Entry(H))
      result == Last(m)
  IN  IF length = 0 THEN Outcome(Raised(m, "ValueError", NoIndex), PyNone)
      ELSE IF length = 1
      THEN Outcome(pair_product_single(m, result, args), Ref("GT", result))
      ELSE Outcome(pair_product_batch(m, result, args, Forward(length)),
                   Ref("GT", result))

(* ----------------------- the Relic context manager -------------------- *)

\* The Relic context objects of the client.
Contexts == {"ctx1", "ctx2"}

RLC_OK == "RLC_OK"

RLC_ERR == "RLC_ERR"

\* core_init returning code: a failed call leaves the core as it was.  relic up
\* to 0.5.0 sets the core up anew, later versions count the references.
core_init(c, old, code) ==
  IF code # RLC_OK THEN c
  ELSE [c EXCEPT !.up = TRUE, !.ref = IF old THEN 1 ELSE @ + 1]

\* pc_param_set_any returning code.
pc_param_set_any(c, code) ==
  IF code # RLC_OK THEN c ELSE [c EXCEPT !.pairing = TRUE]

\* core_clean: relic up to 0.5.0 tears the core down, later versions drop one
\* reference and tear it down with the last one.
core_clean(c, old) ==
  IF old \/ c.ref <= 1 THEN [up |-> FALSE, ref |-> 0, pairing |-> FALSE]
  ELSE [c EXCEPT !.ref = @ - 1]

\* core_get() is not NULL.
core_get(c) == c.up

\* Relic.__init__.
Relic_init == [code_core |-> RLC_ERR, code_pairing |-> RLC_ERR, depth |-> 0]

\* Relic.__enter__ of the standalone module, with the codes core_init and
\* pc_param_set_any return: the context, the core, and whether it raised.
Relic_enter_standalone(self, c, code_core, code_pairing) ==
  IF code_core # RLC_OK
  THEN [self |-> [self EXCEPT !.code_core = code_core], core |-> c,
        raised |-> TRUE, inits |-> 0]
  ELSE LET c1 == core_init(c, build.old, code_core) IN
       IF code_pairing # RLC_OK
       THEN [self |-> [self EXCEPT !.code_core = code_core, !.code_pairing = code_pairing],
             core |-> pc_param_set_any(c1, code_pairing), raised |-> TRUE, inits |-> 1]
       ELSE [self |-> [self EXCEPT !.code_core = code_core, !.code_pairing = code_pairing],
             core |-> pc_param_set_any(c1, code_pairing), raised |-> FALSE, inits |-> 1]

\* Relic.__enter__ of the combined module: with relic up to 0.5.0 a core that
\* is set up already is left alone.
Relic_enter(self, c, code_core, code_pairing) ==
  IF build.old /\ core_get(c)
  THEN [self |-> self, core |-> c, raised |-> FALSE, inits |-> 0]
  ELSE Relic_enter_standalone(self, c, code_core, code_pairing)

\* Relic.__exit__: the core and the number of core_clean calls.
Relic_exit(self, c) ==
  IF self.code_core = RLC_OK
  THEN [core |-> core_clean(c, build.old), cleans |-> 1]
  ELSE [core |-> c, cleans |-> 0]

Initialized == core.up /\ core.pairing

(* ------------------------------ inputs -------------------------------- *)

\* The objects of an input are described without their buffers; Materialize
\* allocates a buffer for each wrapper object, in order, and returns the
\* references.
RECURSIVE Materialize(_, _)
RECURSIVE MaterializeAll(_, _)
Materialize(h, s) ==
  IF s.py \in {"BN", "G1", "G2", "GT"}
  THEN [heap |-> Append(h, [type |-> s.py, val |-> s.val]), ref |-> Ref(s.py, Len(h) + 1)]
  ELSE IF s.py = "tuple"
  THEN LET r == MaterializeAll(h, s.items) IN [heap |-> r.heap, ref |-> PyTuple(r.refs)]
  ELSE [heap |-> h, ref |-> s]

MaterializeAll(h, ss) ==
  IF ss = <<>> THEN [heap |-> h, refs |-> <<>>]
  ELSE LET r1 == Materialize(h, Head(ss))
           r2 == MaterializeAll(r1.heap, Tail(ss))
       IN  [heap |-> r2.heap, refs |-> <<r1.ref>> \o r2.refs]

Obj(t, v) == [py |-> t, val |-> v]

OtherGroup(G) == IF G = "G1" THEN "G2" ELSE "G1"

GroupOf(op) == IF op = "mul_sim_G1" THEN "G1" ELSE "G2"

Elems == 0 .. Order - 1

\* An optional base: none, or an element of the group.
BaseChoices(G) == {PyNone} \cup {Obj(G, v) : v \in {1, Order - 1}}

\* What may stand in values: an element of the group, an element of the other
\* group, a Python int.
ValueKinds(G) == {Obj(G, 1), Obj(OtherGroup(G), 1), PyInt(5)}

\* What may stand in scalars: a BN, a Python int.
ScalarKinds == {Obj("BN", 1), PyInt(2)}

NoOut ==
  [exc |-> "none", index |-> NoIndex, ret |-> PyNone, log |-> <<>>,
   g1s |-> <<>>, g2s |-> <<>>]

\* The last event: what it was, whether it raised, whether the core was set up
\* (up) and usable (initialized) before it, how many core_init calls succeeded.
NoEvent ==
  [ev |-> "none", raised |-> FALSE, initialized |-> FALSE, up |-> FALSE, inits |-> 0]

\* Inside `with Relic():` of the combined module: the core is set up.
InContext ==
  /\ build = [variant |-> "combined", old |-> FALSE]
  /\ core = [up |-> TRUE, ref |-> 1, pairing |-> TRUE]
  /\ ctxs = [c \in Contexts |->
               IF c = "ctx1" THEN [code_core |-> RLC_OK, code_pairing |-> RLC_OK, depth |-> 1]
               ELSE Relic_init]
  /\ counts = [init |-> 1, clean |-> 0]
  /\ last = NoEvent

\* The state before a call of op on the described values, scalars and base.
Prepared(op, values, scalars, base, args) ==
  LET rv == MaterializeAll(<<>>, values)
      rs == MaterializeAll(rv.heap, scalars)
      rb == Materialize(rs.heap, base)
      ra == MaterializeAll(rb.heap, args)
  IN  /\ pc = "ready"
      /\ inp = [op |-> op, values |-> rv.refs, scalars |-> rs.refs, base |-> rb.ref,
                args |-> ra.refs]
      /\ heap0 = ra.heap
      /\ heap = ra.heap
      /\ out = NoOut
      /\ InContext

\* Well-typed operands of equal length, over every element and scalar.
InitMulSimValues ==
  \E op \in {"mul_sim_G1", "mul_sim_G2"}, n \in 0 .. MaxLen :
    \E vs \in [1 .. n -> Elems], ss \in [1 .. n -> Scalars], b \in BaseChoices(GroupOf(op)) :
      Prepared(op, [i \in 1 .. n |-> Obj(GroupOf(op), vs[i])],
               [i \in 1 .. n |-> Obj("BN", ss[i])], b, <<>>)

\* Operands of every length and type.
InitMulSimTypes ==
  \E op \in {"mul_sim_G1", "mul_sim_G2"}, n \in 0 .. MaxLen, k \in 0 .. MaxLen :
    \E vs \in [1 .. n -> ValueKinds(GroupOf(op))], ss \in [1 .. k -> ScalarKinds],
       b \in {PyNone, Obj(GroupOf(op), 1)} :
      Prepared(op, vs, ss, b, <<>>)

\* What may stand in the arguments of pair_product: a (G1, G2) tuple, a Python
\* int, a tuple with the groups swapped, a tuple with an int, a tuple of three.
ArgKinds ==
  {PyTuple(<<Obj("G1", 1), Obj("G2", 2)>>),
   PyInt(5),
   PyTuple(<<Obj("G2", 1), Obj("G1", 1)>>),
   PyTuple(<<Obj("G1", 1), PyInt(5)>>),
   PyTuple(<<Obj("G1", 1), Obj("G2", 1), Obj("G2", 1)>>)}

\* Well-typed pairs, over every element of G1 and G2.
InitPairValues ==
  \E n \in 0 .. MaxLen :
    \E ps \in [1 .. n -> Elems], qs \in [1 .. n -> Elems] :
      Prepared("pair_product", <<>>, <<>>, PyNone,
               [i \in 1 .. n |-> PyTuple(<<Obj("G1", ps[i]), Obj("G2", qs[i])>>)])

\* Arguments of every length and shape, for both modules.
InitPairTypes ==
  \E op \in {"pair_product", "pair_product_standalone"}, n \in 0 .. MaxLen :
    \E as \in [1 .. n -> ArgKinds] :
      Prepared(op, <<>>, <<>>, PyNone, as)

\* Largest magnitude of an exponent that is enumerated.
MaxExp == 4

Exps == (0 - MaxExp) .. MaxExp

\* The operators ** of the modules, and the group each works in.
PowOps == {"G1.__pow__", "G2.__pow__", "GT.__pow__", "GT.__pow__ (pyrelic/g2.pyx)"}

PowGroup(op) ==
  IF op = "G1.__pow__" THEN "G1" ELSE IF op = "G2.__pow__" THEN "G2" ELSE "GT"

\* What may stand as exponent: a Python int, a BN, an object of another type.
ExpKinds == {PyInt(n) : n \in Exps} \cup {Obj("BN", n) : n \in Exps} \cup {Obj("G1", 1)}

\* a ** exp over every element a and every exponent.
InitPow ==
  \E op \in PowOps, a \in Elems, exp \in ExpKinds :
    Prepared(op, <<>>, <<>>, PyNone, <<Obj(PowGroup(op), a), exp>>)

\* Largest magnitude of a Python int that is converted.
MaxInt == 17

Ints == (0 - MaxInt) .. MaxInt

\* The integers that are serialized: zero, one byte, the first of two bytes, two
\* bytes, the first of three, and their negatives.
BytesSamples ==
  LET pos == {0, 1, 2 ^ 8 - 1, 2 ^ 8, 2 ^ 8 + 2, 2 ^ 16 - 1, 2 ^ 16, 2 ^ 16 + 2 ^ 8}
  IN  pos \cup {0 - v : v \in pos}

\* BN(bytes(x)) over the samples and every small integer.
InitBytes ==
  \E v \in BytesSamples \cup Ints :
    Prepared("BN(bytes(x))", <<>>, <<>>, PyNone, <<Obj("BN", v)>>)

\* What the backend may find in a buffer.
BufferKinds == {"valid", "wrong length", "off curve", "not in subgroup"}

\* The buffers: the encoding of every element, and one malformed buffer of
\* each kind.
Buffers ==
  {Encoded("valid", v) : v \in Elems}
    \cup {Encoded(k, NoElement) : k \in BufferKinds \ {"valid"}}

\* G1(buf), G2(buf), GT(buf) over every buffer.
InitDecode ==
  \E G \in {"G1", "G2", "GT"}, buf \in Buffers :
    Prepared(G, <<>>, <<>>, PyNone, <<buf>>)

\* Largest magnitude of an operand of the arithmetic.
MaxOperand == 2

Operands == (0 - MaxOperand) .. MaxOperand

BinaryOps == {"BN.__add__", "BN.__sub__", "BN.__mul__"}

InplaceOps == {"BN.__iadd__", "BN.__isub__", "BN.__imul__"}

\* An operand of a type the arithmetic does not take.
Unsupported == PyStr(<<"1">>)

\* self op other: a BN with a BN, an int or an unsupported object on the right,
\* and an int or an unsupported object with a BN on the right.
InitBinary ==
  \E op \in BinaryOps, a \in Operands, b \in Operands :
    \E args \in {<<Obj("BN", a), Obj("BN", b)>>, <<Obj("BN", a), PyInt(b)>>,
                 <<PyInt(a), Obj("BN", b)>>, <<Obj("BN", a), Unsupported>>,
                 <<Unsupported, Obj("BN", b)>>} :
      Prepared(op, <<>>, <<>>, PyNone, args)

\* self op= other: a BN with a BN, an int or an unsupported object.
InitInplace ==
  \E op \in InplaceOps, a \in Operands, b \in Operands :
    \E args \in {<<Obj("BN", a), Obj("BN", b)>>, <<Obj("BN", a), PyInt(b)>>,
                 <<Obj("BN", a), Unsupported>>} :
      Prepared(op, <<>>, <<>>, PyNone, args)

ImulOps == {"G1.__imul__", "G2.__imul__", "GT.__imul__"}

ImulGroup(op) ==
  IF op = "G1.__imul__" THEN "G1" ELSE IF op = "G2.__imul__" THEN "G2" ELSE "GT"

\* a *= b over every pair of elements of each group.
InitImul ==
  \E op \in ImulOps, a \in Elems, b \in Elems :
    Prepared(op, <<>>, <<>>, PyNone, <<Obj(ImulGroup(op), a), Obj(ImulGroup(op), b)>>)

\* The six comparisons of a with b, and the bytes of both: a BN with a BN, an
\* int or an unsupported object.
InitCompare ==
  \E a \in Operands, b \in Operands :
    \E other \in {Obj("BN", b), PyInt(b), Unsupported} :
      Prepared("BN.__richcmp__", <<>>, <<>>, PyNone, <<Obj("BN", a), other>>)

\* P1, P2 in G1, Q in G2 and the ints a, b of the bilinearity relations.
InitBilinear ==
  \E p1 \in Elems, p2 \in Elems, q \in Elems, a \in Operands, b \in Operands :
    Prepared("pair", <<>>, <<>>, PyNone,
             <<Obj("G1", p1), Obj("G1", p2), Obj("G2", q), PyInt(a), PyInt(b)>>)

\* The bytes that byte strings are made of.
ByteValues == {0, 1, 2 ^ 8 - 1}

\* The byte strings of at most MaxLen bytes, the empty one included.
ByteStrings == UNION {[1 .. n -> ByteValues] : n \in 0 .. MaxLen}

HashOps == {"hash_to_G1", "hash_to_G2"}

HashGroup(op) == IF op = "hash_to_G1" THEN "G1" ELSE "G2"

\* hash_to_G1(data), hash_to_G2(data) over every byte string.
InitHash ==
  \E op \in HashOps, data \in ByteStrings :
    Prepared(op, <<>>, <<>>, PyNone, <<PyBytes(data)>>)

\* The right-hand side of an in-place operation after a copy: an int, or the
\* other one of the two objects.
CopyOperands == {PyInt(k) : k \in Operands} \cup {PyStr(<<"other">>)}

\* c = a.copy(), then two in-place operations on c, or two on a.
InitCopy ==
  \E a \in Operands, target \in {"copy", "original"} :
    \E op1 \in InplaceOps, op2 \in InplaceOps, y1 \in CopyOperands, y2 \in CopyOperands :
      Prepared("BN.copy", <<>>, <<>>, PyNone,
               <<Obj("BN", a), PyStr(<<target>>), PyStr(<<op1>>), y1, PyStr(<<op2>>), y2>>)

GeneratorOps == {"generator_G1(exponent)", "generator_G2(exponent)", "generator_GT(exponent)"}

\* generator_G1, generator_G2, generator_GT without an exponent and with every
\* BN exponent.
InitGenerator ==
  \E op \in GeneratorOps, exponent \in {PyNone} \cup {Obj("BN", k) : k \in Exps} :
    Prepared(op, <<>>, <<>>, PyNone, <<exponent>>)

\* int(BN_from_int(n)) over every small integer.
InitIntRoundTrip ==
  \E n \in Ints : Prepared("int(BN_from_int(n))", <<>>, <<>>, PyNone, <<PyInt(n)>>)

\* x == y and x != y for an element x of each group and y an element of the
\* same group, an element of another group, an int, None or a str.
InitEqNe ==
  \E G \in {"G1", "G2", "GT"}, a \in Elems :
    \E y \in {Obj(G, b) : b \in Elems}
             \cup {Obj(H, a) : H \in {"G1", "G2", "GT"} \ {G}}
             \cup {PyInt(a), PyNone, Unsupported} :
      Prepared("== and !=", <<>>, <<>>, PyNone, <<Obj(G, a), y>>)

\* Largest modulus that is enumerated.
MaxMod == 5

\* a.mod_inv(m) over every modulus m > 1 and every a from -2m to 2m.
InitModInv ==
  \E mod \in 2 .. MaxMod :
    \E a \in (0 - 2 * mod) .. (2 * mod) :
      Prepared("BN.mod_inv", <<>>, <<>>, PyNone, <<Obj("BN", a), Obj("BN", mod)>>)

\* Longest string that is parsed.
MaxStr == 2

\* The characters the strings are made of: digits of every radix, of radix 10
\* and 16 only, of radix 16 only in both cases, no digit, the sign, no ASCII.
Chars == {"0", "1", "7", "a", "F", "z", "-", "~e"}

Radixes == {2, 10, 16}

\* BN.from_str(s, radix) over every string and radix.
InitFromStr ==
  \E n \in 0 .. MaxStr, radix \in Radixes :
    \E str \in [1 .. n -> Chars] :
      Prepared("BN.from_str", <<>>, <<>>, PyNone, <<PyStr(str), PyInt(radix)>>)

\* BN.from_str(str(x), 16) over the samples and every small integer.
InitStrRoundTrip ==
  \E v \in BytesSamples \cup Ints :
    Prepared("BN.from_str(str(x), 16)", <<>>, <<>>, PyNone, <<Obj("BN", v)>>)

\* BN_from_int(data) over every int.
InitBNFromInt ==
  \E data \in Ints : Prepared("BN_from_int", <<>>, <<>>, PyNone, <<PyInt(data)>>)

(* ------------------------------ actions ------------------------------- *)

Finish(o) ==
  /\ heap' = o.heap
  /\ out' = [exc |-> o.exc, index |-> o.index, ret |-> o.ret, log |-> o.log,
             g1s |-> o.g1s, g2s |-> o.g2s]
  /\ pc' = "done"
  /\ UNCHANGED <<inp, heap0>>
  /\ UNCHANGED relicVars

CallMulSimG1 ==
  /\ pc = "ready"
  /\ inp.op = "mul_sim_G1"
  /\ Finish(mul_sim_G1(heap, inp.values, inp.scalars, inp.base))

CallMulSimG2 ==
  /\ pc = "ready"
  /\ inp.op = "mul_sim_G2"
  /\ Finish(mul_sim_G2(heap, inp.values, inp.scalars, inp.base))

CallPairProduct ==
  /\ pc = "ready"
  /\ inp.op = "pair_product"
  /\ Finish(pair_product(heap, inp.args))

CallPairProductStandalone ==
  /\ pc = "ready"
  /\ inp.op = "pair_product_standalone"
  /\ Finish(pair_product_standalone(heap, inp.args))

CallG1Pow ==
  /\ pc = "ready"
  /\ inp.op = "G1.__pow__"
  /\ LET r == G_pow("G1", Entry(heap), inp.args[1], inp.args[2])
     IN  Finish(Outcome(r, r.ret))

CallG2Pow ==
  /\ pc = "ready"
  /\ inp.op = "G2.__pow__"
  /\ LET r == G_pow("G2", Entry(heap), inp.args[1], inp.args[2])
     IN  Finish(Outcome(r, r.ret))

CallGTPow ==
  /\ pc = "ready"
  /\ inp.op = "GT.__pow__"
  /\ LET r == GT_pow(Entry(heap), inp.args[1], inp.args[2])
     IN  Finish(Outcome(r, r.ret))

CallGTPowStandalone ==
  /\ pc = "ready"
  /\ inp.op = "GT.__pow__ (pyrelic/g2.pyx)"
  /\ LET r == GT_pow_standalone(Entry(heap), inp.args[1], inp.args[2])
     IN  Finish(Outcome(r, IF r.exc = "none" THEN r.ret ELSE PyNone))

\* Two elements made while the core was set up, for the operations that take
\* arguments.
SampleHeap == <<[type |-> "G1", val |-> 1], [type |-> "G2", val |-> 2]>>

SampleG1 == Ref("G1", 1)

SampleG2 == Ref("G2", 2)

Operations ==
  {"BN", "G1", "G2", "GT", "generator_G1", "rand_G1", "mul_sim_G1", "pair", "pair_product"}

\* The outcome of the operation op of the combined module on the sample heap;
\* v is what the backend samples.
Operation(op, v) ==
  LET m == Entry(SampleHeap)
      AsOutcome(r) == Outcome(r, r.ret)
  IN  CASE op = "BN" -> AsOutcome(BN_ctor(m, PyNone))
        [] op = "G1" -> AsOutcome(G_ctor("G1", m, PyNone))
        [] op = "G2" -> AsOutcome(G_ctor("G2", m, PyNone))
        [] op = "GT" -> AsOutcome(GT_ctor(m, PyNone))
        [] op = "generator_G1" -> AsOutcome(generator_G("G1", m, PyNone))
        [] op = "rand_G1" -> AsOutcome(rand_G("G1", m, v))
        [] op = "mul_sim_G1" -> mul_sim_G1(SampleHeap, <<SampleG1>>, <<>>, PyNone)
        [] op = "pair" -> AsOutcome(pair(m, SampleG1, SampleG2))
        [] op = "pair_product" ->
             pair_product(SampleHeap, <<PyTuple(<<SampleG1, SampleG2>>)>>)

\* Which elements the backend may sample in op.
Sampled(op) == IF op = "rand_G1" THEN Elems ELSE {0}

\* The outcomes of the operations, by operation and sampled element.
Outcomes == [op \in Operations |-> [v \in Sampled(op) |-> Operation(op, v)]]

\* The process starts with the core not set up and the contexts just made.
InitRelic ==
  /\ pc = "relic"
  /\ inp = [op |-> "none", values |-> <<>>, scalars |-> <<>>, base |-> PyNone,
            args |-> <<>>]
  /\ heap0 = SampleHeap
  /\ heap = SampleHeap
  /\ out = NoOut
  /\ build \in [variant : {"combined", "standalone"}, old : BOOLEAN]
  /\ core = [up |-> FALSE, ref |-> 0, pairing |-> FALSE]
  /\ ctxs = [c \in Contexts |-> Relic_init]
  /\ counts = [init |-> 0, clean |-> 0]
  /\ last = NoEvent

\* `with ctx:` is entered: __enter__ runs; when it raises, the body is skipped
\* and __exit__ is not called.
Enter(c) ==
  /\ pc = "relic"
  /\ ctxs[c].depth < MaxDepth
  /\ counts.init < MaxInits
  /\ \E code_core \in {RLC_OK, RLC_ERR}, code_pairing \in {RLC_OK, RLC_ERR} :
       LET r == IF build.variant = "combined"
                THEN Relic_enter(ctxs[c], core, code_core, code_pairing)
                ELSE Relic_enter_standalone(ctxs[c], core, code_core, code_pairing)
       IN  /\ ctxs' = [ctxs EXCEPT ![c] =
                         [r.self EXCEPT !.depth = IF r.raised THEN @ ELSE @ + 1]]
           /\ core' = r.core
           /\ counts' = [counts EXCEPT !.init = @ + r.inits]
           /\ last' = [ev |-> "enter", raised |-> r.raised, initialized |-> Initialized,
                      up |-> core.up, inits |-> r.inits]
  /\ UNCHANGED <<pc, inp, heap0, heap, out, build>>

\* The body of `with ctx:` ends: __exit__ runs.
Exit(c) ==
  /\ pc = "relic"
  /\ ctxs[c].depth > 0
  /\ LET r == Relic_exit(ctxs[c], core)
     IN  /\ core' = r.core
         /\ counts' = [counts EXCEPT !.clean = @ + r.cleans]
  /\ ctxs' = [ctxs EXCEPT ![c].depth = @ - 1]
  /\ last' = [ev |-> "exit", raised |-> FALSE, initialized |-> Initialized,
               up |-> core.up, inits |-> 0]
  /\ UNCHANGED <<pc, inp, heap0, heap, out, build>>

\* The client calls an operation of the module.  No operation looks at the
\* state of the core: with the core not set up, the backend calls it makes
\* have no defined behaviour, the process may crash or go on.
Invoke(op) ==
  /\ pc = "relic"
  /\ \E v \in Sampled(op), crash \in BOOLEAN :
       LET o == Outcomes[op][v]
       IN  /\ crash => (~Initialized /\ o.log # <<>>)
           /\ heap' = IF crash THEN SampleHeap ELSE o.heap
           /\ out' = [exc |-> IF crash THEN "crash" ELSE o.exc,
                      index |-> o.index,
                      ret |-> IF crash THEN PyNone ELSE o.ret,
                      log |-> o.log, g1s |-> o.g1s, g2s |-> o.g2s]
  /\ inp' = [inp EXCEPT !.op = op]
  /\ last' = [ev |-> "op", raised |-> FALSE, initialized |-> Initialized,
               up |-> core.up, inits |-> 0]
  /\ UNCHANGED <<pc, heap0, build, core, ctxs, counts>>

NextRelic ==
  \/ \E c \in Contexts : Enter(c)
  \/ \E c \in Contexts : Exit(c)
  \/ \E op \in Operations : Invoke(op)

SpecRelic == InitRelic /\ [][NextRelic]_vars

InitMulSim == InitMulSimValues \/ InitMulSimTypes

NextMulSim == CallMulSimG1 \/ CallMulSimG2

SpecMulSim == InitMulSim /\ [][NextMulSim]_vars

InitPair == InitPairValues \/ InitPairTypes

NextPair == CallPairProduct \/ CallPairProductStandalone

SpecPair == InitPair /\ [][NextPair]_vars

CallBNFromInt ==
  /\ pc = "ready"
  /\ inp.op = "BN_from_int"
  /\ LET r == BN_from_int(Entry(heap), inp.args[1].val)
     IN  Finish(Outcome(r, r.ret))

CallBytesRoundTrip ==
  /\ pc = "ready"
  /\ inp.op = "BN(bytes(x))"
  /\ LET b == BN_bytes(Entry(heap), inp.args[1])
         r == BN_ctor(b.m, b.ret)
     IN  Finish(Outcome(r, r.ret))

CallModInv ==
  /\ pc = "ready"
  /\ inp.op = "BN.mod_inv"
  /\ \E coeff \in BezoutCoefficients(heap[inp.args[1].id].val, heap[inp.args[2].id].val) :
       LET r == mod_inv(Entry(heap), inp.args[1], inp.args[2], coeff)
       IN  Finish(Outcome(r, r.ret))

CallFromStr ==
  /\ pc = "ready"
  /\ inp.op = "BN.from_str"
  /\ LET r == from_str(Entry(heap), inp.args[1], inp.args[2].val)
     IN  Finish(Outcome(r, IF r.exc = "none" THEN r.ret ELSE PyNone))

CallStrRoundTrip ==
  /\ pc = "ready"
  /\ inp.op = "BN.from_str(str(x), 16)"
  /\ LET str == as_string(Entry(heap), inp.args[1], 16)
         r == from_str(str.m, str.ret, 16)
     IN  Finish(Outcome(r, IF r.exc = "none" THEN r.ret ELSE PyNone))

CallG1FromBytes ==
  /\ pc = "ready"
  /\ inp.op = "G1"
  /\ LET r == G_ctor("G1", Entry(heap), inp.args[1])
     IN  Finish(Outcome(r, r.ret))

CallG2FromBytes ==
  /\ pc = "ready"
  /\ inp.op = "G2"
  /\ LET r == G_ctor("G2", Entry(heap), inp.args[1])
     IN  Finish(Outcome(r, r.ret))

CallGTFromBytes ==
  /\ pc = "ready"
  /\ inp.op = "GT"
  /\ LET r == GT_ctor(Entry(heap), inp.args[1])
     IN  Finish(Outcome(r, r.ret))

CallAdd ==
  /\ pc = "ready"
  /\ inp.op = "BN.__add__"
  /\ LET r == BN_add(Entry(heap), inp.args[1], inp.args[2])
     IN  Finish(Outcome(r, r.ret))

CallSub ==
  /\ pc = "ready"
  /\ inp.op = "BN.__sub__"
  /\ LET r == BN_sub(Entry(heap), inp.args[1], inp.args[2])
     IN  Finish(Outcome(r, r.ret))

CallMul ==
  /\ pc = "ready"
  /\ inp.op = "BN.__mul__"
  /\ LET r == BN_mul(Entry(heap), inp.args[1], inp.args[2])
     IN  Finish(Outcome(r, r.ret))

CallIadd ==
  /\ pc = "ready"
  /\ inp.op = "BN.__iadd__"
  /\ LET r == BN_iadd(Entry(heap), inp.args[1], inp.args[2])
     IN  Finish(Outcome(r, r.ret))

CallIsub ==
  /\ pc = "ready"
  /\ inp.op = "BN.__isub__"
  /\ LET r == BN_isub(Entry(heap), inp.args[1], inp.args[2])
     IN  Finish(Outcome(r, r.ret))

CallImul ==
  /\ pc = "ready"
  /\ inp.op = "BN.__imul__"
  /\ LET r == BN_imul(Entry(heap), inp.args[1], inp.args[2])
     IN  Finish(Outcome(r, r.ret))

CallG1Imul ==
  /\ pc = "ready"
  /\ inp.op = "G1.__imul__"
  /\ LET r == G_imul("G1", Entry(heap), inp.args[1], inp.args[2])
     IN  Finish(Outcome(r, r.ret))

CallG2Imul ==
  /\ pc = "ready"
  /\ inp.op = "G2.__imul__"
  /\ LET r == G_imul("G2", Entry(heap), inp.args[1], inp.args[2])
     IN  Finish(Outcome(r, r.ret))

CallGTImul ==
  /\ pc = "ready"
  /\ inp.op = "GT.__imul__"
  /\ LET r == GT_imul(Entry(heap), inp.args[1], inp.args[2])
     IN  Finish(Outcome(r, r.ret))

\* The order in which the six operators are applied.
CompareOps == <<Py_LT, Py_LE, Py_EQ, Py_NE, Py_GT, Py_GE>>

\* The operators from the i-th on, applied to self and other on m: the results.
RECURSIVE CompareAll(_, _, _, _)
CompareAll(m, self, other, i) ==
  IF i > Len(CompareOps) THEN Returned(m, <<>>)
  ELSE LET r == richcmp(m, self, other, CompareOps[i])
           rest == CompareAll(r.m, self, other, i + 1)
       IN  Returned(rest.m, <<r.ret>> \o rest.ret)

\* a < b, a <= b, a == b, a != b, a > b, a >= b, then bytes(a) and bytes(b)
\* when b is a BN.
CallCompare ==
  /\ pc = "ready"
  /\ inp.op = "BN.__richcmp__"
  /\ LET c == CompareAll(Entry(heap), inp.args[1], inp.args[2], 1)
         ba == BN_bytes(c.m, inp.args[1])
         bb == IF isinstance(inp.args[2], "BN") THEN BN_bytes(ba.m, inp.args[2])
               ELSE Returned(ba.m, PyNone)
     IN  Finish(Outcome(bb, PyTuple(c.ret \o <<ba.ret, bb.ret>>)))

\* pair(P1 ** a, Q ** b), pair(P1, Q) ** (a * b), pair(P1 * P2, Q),
\* pair(P1, Q) * pair(P2, Q) and pair_product((P1, Q), (P2, Q)), in this order.
CallBilinear ==
  /\ pc = "ready"
  /\ inp.op = "pair"
  /\ LET P1 == inp.args[1]
         P2 == inp.args[2]
         Q == inp.args[3]
         a == inp.args[4]
         b == inp.args[5]
     IN  \E pp \in {pair_product(heap, <<PyTuple(<<P1, Q>>), PyTuple(<<P2, Q>>)>>)} :
         \E p1a \in {G_pow("G1", Entry(pp.heap), P1, a)} :
         \E qb \in {G_pow("G2", p1a.m, Q, b)} :
         \E lhs1 \in {pair(qb.m, p1a.ret, qb.ret)} :
         \E e1 \in {pair(lhs1.m, P1, Q)} :
         \E rhs1 \in {GT_pow(e1.m, e1.ret, PyInt(a.val * b.val))} :
         \E p12 \in {G_mul("G1", rhs1.m, P1, P2)} :
         \E lhs2 \in {pair(p12.m, p12.ret, Q)} :
         \E e2 \in {pair(lhs2.m, P2, Q)} :
         \E rhs2 \in {GT_mul(e2.m, e1.ret, e2.ret)} :
           LET steps == <<p1a, qb, lhs1, e1, rhs1, p12, lhs2, e2, rhs2>>
               failed == {i \in 1 .. Len(steps) : steps[i].exc # "none"}
           IN  IF pp.exc # "none" THEN Finish(pp)
               ELSE IF failed # {}
               THEN Finish(Outcome(steps[CHOOSE i \in failed : \A j \in failed : i <= j],
                                   PyNone))
               ELSE Finish(Outcome(rhs2, PyTuple(<<lhs1.ret, rhs1.ret, lhs2.ret,
                                                   rhs2.ret, pp.ret>>)))

\* Two calls of the hash on the same byte string.
HashTwice(G) ==
  \E first \in {hash_to_G(G, Entry(heap), inp.args[1])} :
    IF first.exc # "none" THEN Finish(Outcome(first, PyNone))
    ELSE \E second \in {hash_to_G(G, first.m, inp.args[1])} :
           Finish(Outcome(second, PyTuple(<<first.ret, second.ret>>)))

CallHashToG1 ==
  /\ pc = "ready"
  /\ inp.op = "hash_to_G1"
  /\ HashTwice("G1")

CallHashToG2 ==
  /\ pc = "ready"
  /\ inp.op = "hash_to_G2"
  /\ HashTwice("G2")

\* self op= other, for the operator that is named.
Inplace(op, m, self, other) ==
  CASE op = "BN.__iadd__" -> BN_iadd(m, self, other)
    [] op = "BN.__isub__" -> BN_isub(m, self, other)
    [] op = "BN.__imul__" -> BN_imul(m, self, other)

\* c = a.copy(); c == a; then the two in-place operations on the target.
CallCopy ==
  /\ pc = "ready"
  /\ inp.op = "BN.copy"
  /\ LET a == inp.args[1]
         onCopy == inp.args[2].items[1] = "copy"
         Operand(y, other) == IF isinstance(y, "str") THEN other ELSE y
     IN  \E c \in {BN_copy(Entry(heap), a)} :
         \E eq \in {richcmp(c.m, c.ret, a, Py_EQ)} :
           LET target == IF onCopy THEN c.ret ELSE a
               other == IF onCopy THEN a ELSE c.ret
           IN  \E s1 \in {Inplace(inp.args[3].items[1], eq.m, target,
                                   Operand(inp.args[4], other))} :
               \E s2 \in {Inplace(inp.args[5].items[1], s1.m, target,
                                   Operand(inp.args[6], other))} :
                 Finish(Outcome(s2, PyTuple(<<eq.ret, c.ret, s1.ret, s2.ret>>)))

\* generator(exponent), then generator() ** exponent when there is an
\* exponent; the number of backend calls of the first call is kept.
GeneratorAndPower(G) ==
  LET exponent == inp.args[1]
      Gen(m, x) == IF G = "GT" THEN generator_GT(m, x) ELSE generator_G(G, m, x)
      Pow(m, g, x) == IF G = "GT" THEN GT_pow(m, g, x) ELSE G_pow(G, m, g, x)
  IN  \E first \in {Gen(Entry(heap), exponent)} :
      \E plain \in {Gen(first.m, PyNone)} :
      \E power \in {IF exponent = PyNone THEN plain ELSE Pow(plain.m, plain.ret, exponent)} :
        Finish(Outcome(power, PyTuple(<<first.ret, PyInt(Len(first.m.log)), plain.ret,
                                        power.ret>>)))

CallGeneratorG1 ==
  /\ pc = "ready"
  /\ inp.op = "generator_G1(exponent)"
  /\ GeneratorAndPower("G1")

CallGeneratorG2 ==
  /\ pc = "ready"
  /\ inp.op = "generator_G2(exponent)"
  /\ GeneratorAndPower("G2")

CallGeneratorGT ==
  /\ pc = "ready"
  /\ inp.op = "generator_GT(exponent)"
  /\ GeneratorAndPower("GT")

CallIntRoundTrip ==
  /\ pc = "ready"
  /\ inp.op = "int(BN_from_int(n))"
  /\ \E bn \in {BN_from_int(Entry(heap), inp.args[1].val)} :
     \E r \in {BN_int(bn.m, bn.ret)} :
       Finish(Outcome(r, r.ret))

\* x.__eq__(y) and x.__ne__(y), then x == y and x != y.
CallEqNe ==
  /\ pc = "ready"
  /\ inp.op = "== and !="
  /\ LET x == inp.args[1]
         y == inp.args[2]
     IN  \E eq \in {G_eq(x.py, Entry(heap), x, y)} :
         \E ne \in {G_ne(x.py, eq.m, x, y)} :
           IF ne.exc # "none" THEN Finish(Outcome(ne, PyNone))
           ELSE \E e \in {compare("==", ne.m, x, y)} :
                  IF e.exc # "none" THEN Finish(Outcome(e, PyNone))
                  ELSE \E n \in {compare("!=", e.m, x, y)} :
                         Finish(Outcome(n, PyTuple(<<eq.ret, ne.ret, e.ret, n.ret>>)))

NextPow == CallG1Pow \/ CallG2Pow \/ CallGTPow \/ CallGTPowStandalone

SpecPow == InitPow /\ [][NextPow]_vars

InitBN ==
  \/ InitBNFromInt
  \/ InitBytes
  \/ InitModInv
  \/ InitFromStr
  \/ InitStrRoundTrip
  \/ InitBinary
  \/ InitInplace
  \/ InitCompare
  \/ InitCopy
  \/ InitIntRoundTrip

NextBN ==
  \/ CallBNFromInt
  \/ CallBytesRoundTrip
  \/ CallModInv
  \/ CallFromStr
  \/ CallStrRoundTrip
  \/ CallAdd
  \/ CallSub
  \/ CallMul
  \/ CallIadd
  \/ CallIsub
  \/ CallImul
  \/ CallCompare
  \/ CallCopy
  \/ CallIntRoundTrip

SpecBN == InitBN /\ [][NextBN]_vars

NextDecode == CallG1FromBytes \/ CallG2FromBytes \/ CallGTFromBytes

\* The operations on single group elements together.
NextImul == CallG1Imul \/ CallG2Imul \/ CallGTImul

NextHash == CallHashToG1 \/ CallHashToG2

NextGenerator == CallGeneratorG1 \/ CallGeneratorG2 \/ CallGeneratorGT

NextEqNe == CallEqNe

InitGroup == InitPow \/ InitDecode \/ InitImul \/ InitHash \/ InitGenerator \/ InitEqNe

NextGroup == NextPow \/ NextDecode \/ NextImul \/ NextHash \/ NextGenerator \/ NextEqNe

SpecGroup == InitGroup /\ [][NextGroup]_vars

SpecPairing == InitBilinear /\ [][CallBilinear]_vars

\* Both batched operations together.
SpecBatch == (InitMulSim \/ InitPair) /\ [][NextMulSim \/ NextPair]_vars

(* ============================ mul_sim claims =========================== *)

IsMulSim == inp.op \in {"mul_sim_G1", "mul_sim_G2"}

MulSimDone == pc = "done" /\ IsMulSim

\* The indices of values / scalars that hold an object of the wrong type.
IllTyped(G, values, scalars) ==
  {i \in 0 .. Len(values) - 1 :
     ~isinstance(At(values, i), G) \/ ~isinstance(At(scalars, i), "BN")}

Min(S) == CHOOSE x \in S : \A y \in S : x <= y

\* fold(compose, [power(v, s) for v, s in zip(values, scalars)], acc), with the
\* operators ** and * of the group: the id of the result and the heap it is in.
RECURSIVE fold_power(_, _, _, _, _, _)
fold_power(G, m, acc, values, scalars, i) ==
  IF i > Len(values) THEN Returned(m, acc)
  ELSE LET p == G_pow(G, m, values[i], scalars[i])
           c == G_mul(G, p.m, acc, p.ret)
       IN  fold_power(G, c.m, c.ret, values, scalars, i + 1)

\* base * fold(...), base taken as the neutral element when there is none.
ExpectedProduct(G, H, values, scalars, base) ==
  LET e == neutral_G(G, Entry(H))
      f == fold_power(G, e.m, e.ret, values, scalars, 1)
      b == IF base # PyNone THEN Returned(f.m, base) ELSE neutral_G(G, f.m)
      r == G_mul(G, b.m, b.ret, f.ret)
  IN  r.m.heap[r.ret.id].val

\* C1: for operands of equal length that are all of the right type, and any
\* base, mul_sim_G1 / mul_sim_G2 returns an element equal to base composed with
\* the product of values[i] ** scalars[i] over every index, for even, odd and
\* zero length.
C1_MulSimIsProduct ==
  (/\ MulSimDone
   /\ Len(inp.values) = Len(inp.scalars)
   /\ IllTyped(GroupOf(inp.op), inp.values, inp.scalars) = {})
  => /\ out.exc = "none"
     /\ isinstance(out.ret, GroupOf(inp.op))
     /\ heap[out.ret.id].val
          = ExpectedProduct(GroupOf(inp.op), heap0, inp.values, inp.scalars, inp.base)

\* An odd-length call with a base whose result differs from the base and from
\* the product of the first pair alone.
C1_Witness ==
  /\ MulSimDone
  /\ Len(inp.values) = 3 /\ Len(inp.scalars) = 3
  /\ inp.base # PyNone
  /\ out.exc = "none"
  /\ heap0[inp.values[3].id].val * heap0[inp.scalars[3].id].val % Order # 0
  /\ heap0[inp.scalars[1].id].val < 0
  /\ heap[out.ret.id].val # heap0[inp.base.id].val

\* The backend calls of the two local temporaries tmp1 and result.
TemporariesOnly(G) ==
  <<Call(bk[G].null, 1), Call(bk[G].new, 1), Call(bk[G].null, 1), Call(bk[G].new, 1)>>

\* C5 as stated: when the lengths differ, mul_sim raises the length-mismatch
\* error before every type check and before every backend call.
C5_LengthCheckBeforeEveryBackendCall ==
  (MulSimDone /\ Len(inp.values) # Len(inp.scalars))
  => (out.exc = "ValueError" /\ out.ret = PyNone /\ out.log = <<>>)

\* C5 as amended: when the lengths differ, mul_sim raises the length-mismatch
\* error whatever the base and the element types are, and the only backend
\* calls made are the allocations of the two local temporaries: no copy, no
\* scalar multiplication, no composition, and no type error instead.
C5_LengthMismatchRaisesFirst ==
  (MulSimDone /\ Len(inp.values) # Len(inp.scalars))
  => /\ out.exc = "ValueError"
     /\ out.ret = PyNone
     /\ out.log = TemporariesOnly(GroupOf(inp.op))

\* A length mismatch whose first element is of the wrong type, with a base.
C5_Witness ==
  /\ MulSimDone
  /\ Len(inp.values) = 2 /\ Len(inp.scalars) = 1
  /\ ~isinstance(inp.values[1], GroupOf(inp.op))
  /\ inp.base # PyNone
  /\ out.exc = "ValueError"

\* C6: with operands of equal length, mul_sim raises a type error that names
\* the smallest index holding a value that is not of the group type or a
\* scalar that is not a BN, and raises no type error when there is none.
C6_TypeErrorNamesFirstIndex ==
  (MulSimDone /\ Len(inp.values) = Len(inp.scalars))
  => LET bad == IllTyped(GroupOf(inp.op), inp.values, inp.scalars)
     IN  IF bad = {} THEN out.exc = "none"
         ELSE out.exc = "TypeError" /\ out.index = Min(bad) /\ out.ret = PyNone

\* Both slots of the first pair are of the wrong type and so is the trailing
\* one: index 0 is named.
C6_Witness ==
  /\ MulSimDone
  /\ Len(inp.values) = 3 /\ Len(inp.scalars) = 3
  /\ IllTyped(GroupOf(inp.op), inp.values, inp.scalars) = {0, 1, 2}
  /\ out.exc = "TypeError" /\ out.index = 0

(* ========================= pair_product claims ========================= *)

PairProductDone == pc = "done" /\ inp.op = "pair_product"

WellTypedPair(a) ==
  /\ Unpack2(a) = "none"
  /\ isinstance(a.items[1], "G1")
  /\ isinstance(a.items[2], "G2")

\* The indices of the arguments that are no (G1, G2) tuple.
BadArgs(args) == {i \in 0 .. Len(args) - 1 : ~WellTypedPair(At(args, i))}

\* The left fold of * over pair(p, q) for the pairs from index i on.
RECURSIVE fold_pair(_, _, _, _)
fold_pair(m, acc, args, i) ==
  IF i > Len(args) THEN Returned(m, acc)
  ELSE LET p == pair(m, args[i].items[1], args[i].items[2])
           c == GT_mul(p.m, acc, p.ret)
       IN  fold_pair(c.m, c.ret, args, i + 1)

ExpectedPairing(H, args) ==
  LET n == neutral_GT(Entry(H))
      f == fold_pair(n.m, n.ret, args, 1)
  IN  f.m.heap[f.ret.id].val

Count(log, f) == Cardinality({i \in 1 .. Len(log) : log[i].f = f})

\* C2: for any sequence of (G1, G2) pairs, pair_product returns an element of
\* GT equal to the left fold of * over pair(p_i, q_i) from the neutral element:
\* the neutral element for no pair, pair(p, q) for one.
C2_PairProductIsFold ==
  (PairProductDone /\ BadArgs(inp.args) = {})
  => /\ out.exc = "none"
     /\ isinstance(out.ret, "GT")
     /\ heap[out.ret.id].val = ExpectedPairing(heap0, inp.args)

\* Three pairs, none of them with a trivial pairing, and a non-trivial product.
C2_Witness ==
  /\ PairProductDone
  /\ Len(inp.args) = 3
  /\ BadArgs(inp.args) = {}
  /\ \A i \in 1 .. 3 :
       pairing(heap0[inp.args[i].items[1].id].val, heap0[inp.args[i].items[2].id].val) # 0
  /\ inp.args[1] # inp.args[2]
  /\ out.exc = "none"
  /\ heap[out.ret.id].val # 0

\* C3: pair_product chooses the backend evaluation by the number of pairs.  No
\* pair: the result is made and set to unity, nothing else.  One pair: one
\* pc_map call, no pc_map_sim call, no temporary array.  Two or more pairs:
\* one pc_map_sim call, over all of them, and no pc_map call.  (An argument
\* that is no (G1, G2) pair ends the call before the pairing is evaluated.)
C3_EvaluationByLength ==
  PairProductDone
  => LET n == Len(inp.args)
         ok == BadArgs(inp.args) = {}
         sims == {i \in 1 .. Len(out.log) : out.log[i].f = "pc_map_sim"}
     IN  /\ n = 0 => /\ out.log = <<Call("gt_null", 1), Call("gt_new", 1),
                                    Call("gt_set_unity", 1)>>
                      /\ out.exc = "none"
         /\ n = 1 => /\ Count(out.log, "pc_map") = (IF ok THEN 1 ELSE 0)
                      /\ Count(out.log, "pc_map_sim") = 0
                      /\ Count(out.log, "malloc") = 0
         /\ n >= 2 => /\ Count(out.log, "pc_map") = 0
                       /\ Cardinality(sims) = (IF ok THEN 1 ELSE 0)
                       /\ \A i \in sims : out.log[i].n = n
                       /\ Count(out.log, "malloc") = 2

\* Two pairs, evaluated by one pc_map_sim call.
C3_Witness ==
  /\ PairProductDone
  /\ Len(inp.args) = 2
  /\ out.exc = "none"
  /\ Count(out.log, "pc_map_sim") = 1
  /\ Count(out.log, "pc_map") = 0

\* C4: in the combined module and in pyrelic/pair.pyx, pair_product of no pairs
\* returns the neutral element of GT and raises nothing.
C4_EmptyProductIsNeutral ==
  (/\ pc = "done"
   /\ inp.op \in {"pair_product", "pair_product_standalone"}
   /\ inp.args = <<>>)
  => /\ out.exc = "none"
     /\ isinstance(out.ret, "GT")
     /\ heap[out.ret.id].val = 0

\* C7: when some argument of pair_product is no (G1, G2) tuple (a component of
\* the wrong type, or no 2-tuple at all), the call raises a type error that
\* names the index of the first such argument.
C7_TypeErrorNamesFirstBadPair ==
  (PairProductDone /\ BadArgs(inp.args) # {})
  => /\ out.exc = "TypeError"
     /\ out.index = Min(BadArgs(inp.args))

(* ========================== frame of the calls ========================= *)

\* C8: mul_sim and pair_product leave their inputs alone.  Whether the call
\* returns or raises, every buffer that existed before the call (the elements
\* of values and scalars, the base, the components of the pairs) holds what it
\* held; a result that is returned is a new object, so it is not the base; a
\* call that raises returns nothing.
C8_InputsUnchanged ==
  pc = "done"
  => /\ Len(heap) >= Len(heap0)
     /\ \A id \in 1 .. Len(heap0) : heap[id] = heap0[id]
     /\ out.exc = "none" => out.ret # PyNone /\ out.ret.id > Len(heap0)
     /\ out.exc # "none" => out.ret = PyNone

\* A type error at the trailing index of mul_sim, after the first pair was
\* multiplied and accumulated onto a copy of the base.
C8_Witness ==
  /\ MulSimDone
  /\ inp.base # PyNone
  /\ Len(inp.values) = 3
  /\ out.exc = "TypeError" /\ out.index = 2
  /\ Count(out.log, bk[GroupOf(inp.op)].add) = 1
  /\ out.ret = PyNone

(* ========================= initialization claims ======================= *)

\* C9: an operation of the module that is called while the core is not set up
\* fails with NotInitializedError and makes no backend call.
C9_UninitializedUseFailsCleanly ==
  (pc = "relic" /\ last.ev = "op" /\ ~last.initialized)
  => (out.exc = "NotInitializedError" /\ out.log = <<>>)

\* C10: when __enter__ raises, at either step, and no other context is active,
\* the core is clean once the with statement is left: every successful
\* core_init was matched by a core_clean.
C10_FailedEnterLeavesCoreClean ==
  (/\ pc = "relic"
   /\ last.ev = "enter" /\ last.raised
   /\ \A c \in Contexts : ctxs[c].depth = 0)
  => (~core.up /\ counts.init = counts.clean)

\* C11: over every sequence of __enter__ and __exit__ calls on the contexts,
\* core_init does not succeed again while the core is set up, and core_clean
\* was never called more often than core_init succeeded.
C11_InitOnceCleanAtMostOnce ==
  pc = "relic"
  => /\ ~(last.ev = "enter" /\ last.up /\ last.inits > 0)
     /\ counts.clean <= counts.init

\* C25: while a Relic context that was entered has not been exited, the core
\* is set up: over every order of __enter__ and __exit__ on the contexts, with
\* either relic version, no __exit__ tears the core down under a context that
\* is still entered.
C25_CoreUpWhileEntered ==
  (pc = "relic" /\ \E c \in Contexts : ctxs[c].depth > 0) => core.up

(* ====================== temporary arrays of pair_product =============== *)

\* The positions in the log of the calls of f on slot s of a temporary array.
SlotCalls(f, s) ==
  {i \in 1 .. Len(out.log) :
     /\ out.log[i].f = f
     /\ "slot" \in DOMAIN out.log[i]
     /\ out.log[i].slot = s}

Positions(f) == {i \in 1 .. Len(out.log) : out.log[i].f = f}

BatchDone ==
  /\ pc = "done"
  /\ inp.op \in {"pair_product", "pair_product_standalone"}
  /\ Len(inp.args) >= 2

\* C26: pair_product on two or more pairs, on every path (it returns, or it
\* raises at any index): a slot that was allocated is released exactly once,
\* after it was allocated; pc_map_sim reads no slot that was only nulled and no
\* slot that was released; both arrays are freed exactly once, after every
\* slot was released; slot i is copied from the components of pair i.
C26_TemporariesReleasedOnce ==
  BatchDone
  => LET n == Len(inp.args)
         log == out.log
         final == [G1 |-> out.g1s, G2 |-> out.g2s]
         component == [G1 |-> 1, G2 |-> 2]
         releases == Positions("g1_free") \cup Positions("g2_free")
     IN  /\ \A G \in {"G1", "G2"}, s \in 0 .. n - 1 :
               LET news == SlotCalls(bk[G].new, s)
                   frees == SlotCalls(bk[G].free, s)
                   copies == SlotCalls(bk[G].copy, s)
               IN  /\ Cardinality(news) <= 1
                   /\ Cardinality(frees) = 1
                   /\ \A i \in news, j \in frees : i < j
                   /\ final[G][s + 1].st = (IF news = {} THEN "null" ELSE "freed")
                   /\ \A i \in copies :
                        /\ news # {} /\ \A j \in news : j < i
                        /\ \A j \in frees : i < j
                        /\ log[i].src = At(inp.args, s).items[component[G]].id
         /\ Cardinality(Positions("pc_map_sim")) <= 1
         /\ \A k \in Positions("pc_map_sim") :
               /\ BadArgs(inp.args) = {}
               /\ log[k].n = n
               /\ \A i \in releases : k < i
               /\ \A s \in 1 .. n :
                    /\ log[k].g1s[s] = [st |-> "new", val |-> heap0[inp.args[s].items[1].id].val]
                    /\ log[k].g2s[s] = [st |-> "new", val |-> heap0[inp.args[s].items[2].id].val]
         /\ Cardinality(Positions("malloc")) = 2
         /\ Cardinality(Positions("free")) = 2
         /\ \A i \in Positions("free") : \A j \in releases \cup Positions("malloc") : j < i

\* Three arguments of which the last is no pair: two slots of each array were
\* allocated and released, the third was only nulled, pc_map_sim did not run.
C26_Witness ==
  /\ BatchDone
  /\ Len(inp.args) = 3
  /\ out.exc = "TypeError"
  /\ Positions("pc_map_sim") = {}
  /\ out.g1s[1].st = "freed" /\ out.g1s[2].st = "freed" /\ out.g1s[3].st = "null"
  /\ out.g2s[1].st = "freed" /\ out.g2s[2].st = "freed" /\ out.g2s[3].st = "null"

(* ========================= exponentiation claims ====================== *)

PowDone == pc = "done" /\ inp.op \in PowOps

\* The buffers of BN objects that were made during the call.
NewScalars == {id \in Len(heap0) + 1 .. Len(heap) : heap[id].type = "BN"}

\* The inverse of the element v, and v raised to the non-negative k.
Inverse(v) == (Order - v) % Order

RECURSIVE Power(_, _)
Power(v, k) == IF k = 0 THEN 0 ELSE (Power(v, k - 1) + v) % Order

\* C12: for every element a of G1, G2 or GT and every Python int n, a ** n
\* returns an element of the same group: for n < 0 the power of the inverse of
\* a by |n|, which is the inverse of a ** |n|; for n = 0 the neutral element.
\* No scalar made from the int for the backend is negative, and a is unchanged.
C12_IntPowerBySignInversion ==
  (PowDone /\ isinstance(inp.args[2], "int"))
  => LET a == heap0[inp.args[1].id].val
         n == inp.args[2].val
     IN  /\ out.exc = "none"
         /\ isinstance(out.ret, PowGroup(inp.op))
         /\ heap[out.ret.id].val = IF n < 0 THEN Power(Inverse(a), Abs(n)) ELSE Power(a, n)
         /\ n < 0 => heap[out.ret.id].val = Inverse(Power(a, Abs(n)))
         /\ n = 0 => heap[out.ret.id].val = 0
         /\ \A id \in NewScalars : heap[id].val >= 0
         /\ heap[inp.args[1].id] = heap0[inp.args[1].id]

\* C13: a negative BN exponent is handled like a negative int: the element is
\* inverted by the binding (g1_neg / g2_neg / gt_inv), the backend multiplies by
\* the magnitude, and the result is the inverse of the power by the magnitude.
C13_NegativeBNPowerBySignInversion ==
  (/\ PowDone
   /\ isinstance(inp.args[2], "BN")
   /\ heap0[inp.args[2].id].val < 0)
  => LET a == heap0[inp.args[1].id].val
         n == Abs(heap0[inp.args[2].id].val)
         inv == IF PowGroup(inp.op) = "GT" THEN "gt_inv" ELSE bk[PowGroup(inp.op)].neg
     IN  /\ out.exc = "none"
         /\ Count(out.log, inv) = 1
         /\ heap[out.ret.id].val = Inverse(Power(a, n))

(* ============================== BN claims ============================== *)

\* The backend calls of the log that are calls of f.
Calls(log, f) == SelectSeq(log, LAMBDA c : c.f = f)

\* The least number of digits of WSIZE bits that hold the magnitude n.
RECURSIVE DigitsFor(_)
DigitsFor(n) == IF n = 0 THEN 0 ELSE 1 + DigitsFor(n \div (2 ^ WSIZE))

RECURSIVE Sum(_, _)
Sum(f, n) == IF n = 0 THEN 0 ELSE Sum(f, n - 1) + f[n]

\* C14: for every Python int n, BN_from_int(n) is the integer n.  The backend
\* reads the magnitude from ceil(bits(|n|) / WSIZE) digits, each below 2^WSIZE,
\* digit i being (|n| >> (WSIZE * i)) mod 2^WSIZE, so that the digits weighted by
\* 2^(WSIZE * i) sum to |n|; the value is negated exactly when n < 0; for n = 0
\* no digit is written and the result is zero.
C14_FromIntDenotesTheInt ==
  (pc = "done" /\ inp.op = "BN_from_int")
  => LET n == inp.args[1].val
         reads == Calls(out.log, "bn_read_raw")
     IN  /\ out.exc = "none"
         /\ isinstance(out.ret, "BN")
         /\ heap[out.ret.id].val = n
         /\ Len(reads) = 1
         /\ reads[1].n = DigitsFor(Abs(n))
         /\ Len(reads[1].raw) = reads[1].n
         /\ \A i \in 1 .. reads[1].n :
              /\ reads[1].raw[i] \in 0 .. 2 ^ WSIZE - 1
              /\ reads[1].raw[i] = (Abs(n) \div 2 ^ (WSIZE * (i - 1))) % 2 ^ WSIZE
         /\ Sum([i \in 1 .. reads[1].n |-> reads[1].raw[i] * 2 ^ (WSIZE * (i - 1))],
                reads[1].n) = Abs(n)
         /\ (Count(out.log, "bn_neg") = 1) <=> (n < 0)
         /\ Count(out.log, "bn_neg") \in {0, 1}
         /\ n = 0 => reads[1].n = 0 /\ heap[out.ret.id].val = 0

\* A negative int whose magnitude fills its digits to the last bit, in more
\* than one digit.
C14_Witness ==
  /\ pc = "done" /\ inp.op = "BN_from_int"
  /\ inp.args[1].val < 0
  /\ _PyLong_NumBits(inp.args[1].val) = 2 * WSIZE
  /\ Calls(out.log, "bn_read_raw")[1].n = 2
  /\ heap[out.ret.id].val = inp.args[1].val

BytesDone == pc = "done" /\ inp.op = "BN(bytes(x))"

\* C15 as claimed: BN(bytes(x)) is x for every integer x, negative ones too.
C15_BytesRoundTrip ==
  BytesDone
  => /\ out.exc = "none"
     /\ isinstance(out.ret, "BN")
     /\ heap[out.ret.id].val = heap0[inp.args[1].id].val

\* C15 as amended: bytes(x) is the magnitude of x, most significant byte first,
\* without leading zero byte and without sign; BN(bytes(x)) is x for every
\* x >= 0, zero included, and -x for every x < 0; x is unchanged.
C15_BytesRoundTripOfMagnitude ==
  BytesDone
  => LET x == heap0[inp.args[1].id].val
         writes == Calls(out.log, "bn_write_bin")
     IN  /\ out.exc = "none"
         /\ isinstance(out.ret, "BN")
         /\ out.ret.id > Len(heap0)
         /\ heap[out.ret.id].val = Abs(x)
         /\ x >= 0 => heap[out.ret.id].val = x
         /\ Len(writes) = 1
         /\ writes[1].n > 0 => writes[1].raw[1] # 0
         /\ (writes[1].n = 0) <=> (x = 0)
         /\ heap[inp.args[1].id] = heap0[inp.args[1].id]

\* A negative integer of two bytes comes back as its magnitude.
C15_Witness ==
  /\ BytesDone
  /\ heap0[inp.args[1].id].val = 0 - 2 ^ 8
  /\ Calls(out.log, "bn_write_bin")[1].raw = <<1, 0>>
  /\ heap[out.ret.id].val = 2 ^ 8

ModInvDone == pc = "done" /\ inp.op = "BN.mod_inv"

\* C16: for every integer a and modulus m > 1 with gcd(a, m) = 1, a.mod_inv(m)
\* returns a new BN x with (a * x) mod m = 1 and 0 <= x < m, whatever
\* coefficient the extended gcd produced; a and m are unchanged.
C16_ModInvIsInverseInRange ==
  (ModInvDone /\ Gcd(heap0[inp.args[1].id].val, heap0[inp.args[2].id].val) = 1)
  => LET a == heap0[inp.args[1].id].val
         mod == heap0[inp.args[2].id].val
     IN  /\ out.exc = "none"
         /\ isinstance(out.ret, "BN")
         /\ out.ret.id > Len(heap0)
         /\ (a * heap[out.ret.id].val) % mod = 1
         /\ heap[out.ret.id].val \in 0 .. mod - 1
         /\ heap[inp.args[1].id] = heap0[inp.args[1].id]
         /\ heap[inp.args[2].id] = heap0[inp.args[2].id]

\* A negative a beyond the modulus, inverted through a negative coefficient.
C16_Witness ==
  /\ ModInvDone
  /\ Gcd(heap0[inp.args[1].id].val, heap0[inp.args[2].id].val) = 1
  /\ heap0[inp.args[1].id].val < 0 - heap0[inp.args[2].id].val
  /\ heap[Len(heap0) + 1].val < 0
  /\ heap[out.ret.id].val > 0

\* C17: for a and m with gcd(a, m) # 1 (a = 0 and multiples of m among them),
\* a.mod_inv(m) raises ArithmeticError and returns nothing.
C17_ModInvOfNonInvertibleRaises ==
  (ModInvDone /\ Gcd(heap0[inp.args[1].id].val, heap0[inp.args[2].id].val) # 1)
  => (out.exc = "ArithmeticError" /\ out.ret = PyNone)

\* The positions of str that hold no digit of the radix; a "-" in front is the
\* sign.
InvalidDigits(str, radix) ==
  {i \in 1 .. Len(str) : ~IsDigit(str[i], radix) /\ ~(i = 1 /\ str[i] = "-")}

\* C18: BN.from_str(s, radix) fails with ParseError and returns no BN when s
\* holds a character that is no digit of the radix, and BN.from_str(str(x), 16)
\* is x for every x >= 0.
C18_FromStrRejectsInvalidDigits ==
  /\ (/\ pc = "done" /\ inp.op = "BN.from_str"
      /\ InvalidDigits(inp.args[1].items, inp.args[2].val) # {})
     => (out.exc = "ParseError" /\ out.ret = PyNone)
  /\ (/\ pc = "done" /\ inp.op = "BN.from_str(str(x), 16)"
      /\ heap0[inp.args[1].id].val >= 0)
     => (/\ out.exc = "none"
         /\ isinstance(out.ret, "BN")
         /\ heap[out.ret.id].val = heap0[inp.args[1].id].val)

(* ============================ decoding claims ========================== *)

\* C19: G1(buf), G2(buf) and GT(buf) on a buffer that is no valid encoding
\* (wrong length, a point off the curve or outside the subgroup) raise
\* DecodeError and return no object.
C19_MalformedBufferRaisesDecodeError ==
  (/\ pc = "done" /\ inp.op \in {"G1", "G2", "GT"}
   /\ inp.args[1].kind # "valid")
  => (out.exc = "DecodeError" /\ out.ret = PyNone)

(* =========================== arithmetic claims ========================= *)

\* The integer an operand stood for before the call.
ValueOf(o) == IF isinstance(o, "int") THEN o.val ELSE heap0[o.id].val

\* The mathematical result of the operator on x and y, in this order.
Apply(op, x, y) ==
  CASE op \in {"BN.__add__", "BN.__iadd__"} -> x + y
    [] op \in {"BN.__sub__", "BN.__isub__"} -> x - y
    [] op \in {"BN.__mul__", "BN.__imul__"} -> x * y

Supported(o) == isinstance(o, "BN") \/ isinstance(o, "int")

\* C20: add, sub and mul take a BN or an int on either side and compute the
\* result with the operands in the written order.  The value-returning forms
\* return a new BN and leave both operands unchanged; the in-place forms update
\* the receiver to the result and return the receiver, the other operand
\* unchanged; with an operand of another type the call yields NotImplemented
\* and every operand is unchanged.
C20_ArithmeticInWrittenOrder ==
  (pc = "done" /\ inp.op \in BinaryOps \cup InplaceOps)
  => LET self == inp.args[1]
         other == inp.args[2]
         unchanged(S) == \A id \in S : heap[id] = heap0[id]
     IN  /\ out.exc = "none"
         /\ IF ~Supported(self) \/ ~Supported(other)
            THEN /\ out.ret = NotImplemented
                 /\ unchanged(1 .. Len(heap0))
            ELSE IF inp.op \in BinaryOps
            THEN /\ isinstance(out.ret, "BN")
                 /\ out.ret.id > Len(heap0)
                 /\ heap[out.ret.id].val = Apply(inp.op, ValueOf(self), ValueOf(other))
                 /\ unchanged(1 .. Len(heap0))
            ELSE /\ out.ret = self
                 /\ heap[self.id].val = Apply(inp.op, ValueOf(self), ValueOf(other))
                 /\ unchanged((1 .. Len(heap0)) \ {self.id})

\* An int minus a BN, with a difference that tells the order.
C20_Witness ==
  /\ pc = "done" /\ inp.op = "BN.__sub__"
  /\ isinstance(inp.args[1], "int") /\ isinstance(inp.args[2], "BN")
  /\ inp.args[1].val = 1
  /\ heap0[inp.args[2].id].val = 0 - 2
  /\ heap[out.ret.id].val = 3

(* ======================== in-place composition ========================= *)

\* C21: after a *= b in G1, G2 or GT the name a is bound to what __imul__
\* returned: that is the receiver, an element of the same group that holds
\* (old a) composed with b, and b is unchanged.
C21_InplaceComposeReturnsReceiver ==
  (pc = "done" /\ inp.op \in ImulOps)
  => LET a == inp.args[1]
         b == inp.args[2]
     IN  /\ out.exc = "none"
         /\ out.ret = a
         /\ isinstance(out.ret, ImulGroup(inp.op))
         /\ heap[a.id].val = (heap0[a.id].val + heap0[b.id].val) % Order
         /\ heap[b.id] = heap0[b.id]

(* ============================ comparison claims ======================== *)

CompareDone == pc = "done" /\ inp.op = "BN.__richcmp__"

\* C22: the six comparisons of BN a with BN b are those of the signed integers:
\* exactly one of a < b, a == b, a > b holds, a <= b is the negation of a > b,
\* a >= b of a < b, a != b of a == b, each operator asks the backend for one
\* three-way comparison, and a == b implies bytes(a) == bytes(b).  With an
\* operand that is no BN every operator gives NotImplemented.
C22_ComparisonIsTotalOrder ==
  CompareDone
  => LET r == out.ret.items
         lt == r[1]  le == r[2]  eq == r[3]  ne == r[4]  gt == r[5]  ge == r[6]
         a == heap0[inp.args[1].id].val
     IN  /\ out.exc = "none"
         /\ IF isinstance(inp.args[2], "BN")
            THEN LET b == heap0[inp.args[2].id].val
                 IN  /\ \A i \in 1 .. 6 : isinstance(r[i], "bool")
                     /\ lt.val = (a < b) /\ eq.val = (a = b) /\ gt.val = (a > b)
                     /\ Cardinality({x \in {"lt", "eq", "gt"} :
                           \/ x = "lt" /\ lt.val
                           \/ x = "eq" /\ eq.val
                           \/ x = "gt" /\ gt.val}) = 1
                     /\ le.val = ~gt.val
                     /\ ge.val = ~lt.val
                     /\ ne.val = ~eq.val
                     /\ Count(out.log, "bn_cmp") = 6
                     /\ eq.val => r[7] = r[8]
            ELSE /\ \A i \in 1 .. 6 : r[i] = NotImplemented
                 /\ Count(out.log, "bn_cmp") = 0

\* A negative a of larger magnitude than a positive b: a < b.
C22_Witness ==
  /\ CompareDone
  /\ isinstance(inp.args[2], "BN")
  /\ heap0[inp.args[1].id].val = 0 - 2
  /\ heap0[inp.args[2].id].val = 1
  /\ out.ret.items[1] = PyBool(TRUE)
  /\ out.ret.items[5] = PyBool(FALSE)

(* ============================ pairing claims =========================== *)

\* C23: the pairing is bilinear through the operators of the module: for P1,
\* P2 in G1, Q in G2 and ints a, b, pair(P1 ** a, Q ** b) equals
\* pair(P1, Q) ** (a * b), pair(P1 * P2, Q) equals pair(P1, Q) * pair(P2, Q),
\* and pair_product((P1, Q), (P2, Q)) equals pair(P1 * P2, Q).
C23_PairingIsBilinear ==
  (pc = "done" /\ inp.op = "pair")
  => LET r == out.ret.items
         v(k) == heap[r[k].id].val
     IN  /\ out.exc = "none"
         /\ \A i \in 1 .. 5 : isinstance(r[i], "GT") /\ v(i) \in Elems
         /\ v(1) = v(2)
         /\ v(3) = v(4)
         /\ v(5) = v(3)
         /\ \A id \in 1 .. Len(heap0) : heap[id] = heap0[id]

\* A negative and a positive exponent on elements whose pairing is not the
\* neutral element, and two different elements P1 and P2.
C23_Witness ==
  /\ pc = "done" /\ inp.op = "pair"
  /\ inp.args[4].val < 0 /\ inp.args[5].val > 1
  /\ heap0[inp.args[1].id].val # heap0[inp.args[2].id].val
  /\ heap[out.ret.items[1].id].val # 0
  /\ heap[out.ret.items[5].id].val # 0


(* ============================= hashing claims ========================== *)

\* C24: hash_to_G1 and hash_to_G2 are total and deterministic on byte strings:
\* on every byte string, the empty one included, the call raises nothing and
\* returns an element of the group, and two calls on the same byte string
\* return equal elements.
C24_HashTotalAndDeterministic ==
  (pc = "done" /\ inp.op \in HashOps)
  => /\ out.exc = "none"
     /\ isinstance(out.ret, "tuple")
     /\ \A i \in 1 .. 2 : /\ isinstance(out.ret.items[i], HashGroup(inp.op))
                          /\ heap[out.ret.items[i].id].val \in Elems
     /\ heap[out.ret.items[1].id].val = heap[out.ret.items[2].id].val


(* ============================== copy claims ============================ *)

\* The value of the target after the two in-place operations on x, the other
\* object holding x all along.
AfterTwo(x) ==
  LET Value(y) == IF isinstance(y, "str") THEN x ELSE y.val
      x1 == Apply(inp.args[3].items[1], x, Value(inp.args[4]))
  IN  Apply(inp.args[5].items[1], x1, Value(inp.args[6]))

\* C27: c = a.copy() is a new object with c == a; in-place operations (+=, -=,
\* *=) on c leave the value of a unchanged and update c, and in-place
\* operations on a leave the value of c unchanged and update a.
C27_CopyIsDeep ==
  (pc = "done" /\ inp.op = "BN.copy")
  => LET a == inp.args[1]
         c == out.ret.items[2]
         x == heap0[a.id].val
         onCopy == inp.args[2].items[1] = "copy"
         target == IF onCopy THEN c ELSE a
         other == IF onCopy THEN a ELSE c
     IN  /\ out.exc = "none"
         /\ out.ret.items[1] = PyBool(TRUE)
         /\ isinstance(c, "BN") /\ c.id > Len(heap0)
         /\ out.ret.items[3] = target /\ out.ret.items[4] = target
         /\ heap[other.id].val = x
         /\ heap[target.id].val = AfterTwo(x)

\* In-place operations on the original that change its value, the second with
\* the copy as its operand.
C27_Witness ==
  /\ pc = "done" /\ inp.op = "BN.copy"
  /\ inp.args[2].items[1] = "original"
  /\ isinstance(inp.args[6], "str")
  /\ heap[inp.args[1].id].val # heap0[inp.args[1].id].val
  /\ heap[out.ret.items[2].id].val = heap0[inp.args[1].id].val
  /\ heap[out.ret.items[2].id].val # 0


(* ============================ generator claims ========================= *)

GeneratorDone == pc = "done" /\ inp.op \in GeneratorOps

\* The backend calls of the call generator(exponent) itself.
GeneratorCalls == {out.log[i].f : i \in 1 .. out.ret.items[2].val}

\* C28: in G1, G2 and GT, generator(exponent) equals generator() ** exponent
\* for every BN exponent; in G1 and G2 it is computed by g1_mul_gen /
\* g2_mul_gen and never by g1_mul / g2_mul; generator() returns the generator.
C28_GeneratorPower ==
  GeneratorDone
  => LET exponent == inp.args[1]
         r == out.ret.items
         G == IF inp.op = "generator_G1(exponent)" THEN "G1"
              ELSE IF inp.op = "generator_G2(exponent)" THEN "G2" ELSE "GT"
     IN  /\ out.exc = "none"
         /\ \A i \in {1, 3, 4} : isinstance(r[i], G) /\ heap[r[i].id].val \in Elems
         /\ heap[r[3].id].val = 1
         /\ heap[r[1].id].val = heap[r[4].id].val
         /\ exponent = PyNone => heap[r[1].id].val = 1
         /\ exponent # PyNone
              => /\ LET k == heap0[exponent.id].val
                    IN  heap[r[1].id].val
                          = (IF k < 0 THEN Inverse(Power(1, 0 - k)) ELSE Power(1, k))
                 /\ G = "G1" => ("g1_mul_gen" \in GeneratorCalls /\ "g1_mul" \notin GeneratorCalls)
                 /\ G = "G2" => ("g2_mul_gen" \in GeneratorCalls /\ "g2_mul" \notin GeneratorCalls)
         /\ \A id \in 1 .. Len(heap0) : heap[id] = heap0[id]

\* A negative exponent that does not give the neutral element or the generator.
C28_Witness ==
  /\ GeneratorDone
  /\ inp.op = "generator_G2(exponent)"
  /\ inp.args[1] # PyNone
  /\ heap0[inp.args[1].id].val < 0
  /\ heap[out.ret.items[1].id].val \notin {0, 1}
  /\ heap[out.ret.items[1].id].val = heap[out.ret.items[4].id].val


(* ========================== int round-trip claims ====================== *)

\* C29: int(BN_from_int(n)) is n for every Python int n: zero, values of one
\* digit and of several digits, and negative values.
C29_IntRoundTrip ==
  (pc = "done" /\ inp.op = "int(BN_from_int(n))")
  => (out.exc = "none" /\ out.ret = PyInt(inp.args[1].val))


(* ============================ equality claims ========================== *)

\* C30: for an element x of G1, G2 or GT and an operand y of any type, x != y
\* is the negation of x == y and neither raises: with y of the type of x both
\* methods return a bool from the backend comparison, True for == exactly when
\* the elements are equal; with y of another type both methods return
\* NotImplemented, so that x == y is False and x != y is True.
C30_NeIsNegationOfEq ==
  (pc = "done" /\ inp.op = "== and !=")
  => LET x == inp.args[1]
         y == inp.args[2]
         r == out.ret.items
     IN  /\ out.exc = "none"
         /\ isinstance(r[3], "bool") /\ isinstance(r[4], "bool")
         /\ r[4].val = ~r[3].val
         /\ isinstance(y, x.py)
              => /\ r[1] = PyBool(heap0[x.id].val = heap0[y.id].val)
                 /\ r[2] = PyBool(heap0[x.id].val # heap0[y.id].val)
                 /\ r[3] = r[1] /\ r[4] = r[2]
         /\ ~isinstance(y, x.py)
              => /\ r[1] = NotImplemented /\ r[2] = NotImplemented
                 /\ r[3] = PyBool(FALSE) /\ r[4] = PyBool(TRUE)

====
